---- MODULE Spec2Model ----
(***************************************************************************)
(* Model of the retrieval engine SimpleRAGSystem (src/utils/rag_system.py): *)
(* the in-memory index/documents/metadata triple, the two files of the      *)
(* on-disk snapshot, lazy model loading, ingestion, deletion with index     *)
(* rebuild, search, and construction over an existing data directory.       *)
(*                                                                          *)
(* Texts are sequences of one-character strings.  Python's 0-based indices  *)
(* are kept in the definitions translated from the source; PyCh and PySlice *)
(* convert to TLA+'s 1-based sequences.                                     *)
(***************************************************************************)
EXTENDS Integers, Sequences, FiniteSets, TLC

None == "None"

Max(a, b) == IF a >= b THEN a ELSE b
Min(a, b) == IF a <= b THEN a ELSE b

(***************************************************************************)
(* Python string primitives used by the source.                             *)
(***************************************************************************)
\* text[i] for a 0-based index -len(text) <= i < len(text)
PyCh(text, i) == IF i < 0 THEN text[Len(text) + i + 1] ELSE text[i + 1]

\* a slice bound clamped as Python clamps it: negative bounds count from the end
PyBound(text, b) == IF b < 0 THEN Max(Len(text) + b, 0) ELSE Min(b, Len(text))

\* text[s:e]
PySlice(text, s, e) ==
    LET lo == PyBound(text, s)
        hi == PyBound(text, e)
    IN  IF lo >= hi THEN << >> ELSE SubSeq(text, lo + 1, hi)

Whitespace == {" ", "\n", "\t"}

\* str.strip(): drop leading and trailing whitespace
Strip(text) ==
    LET n == Len(text)
        Kept(i) == text[i] \notin Whitespace
    IN  IF \A i \in 1..n : ~Kept(i) THEN << >>
        ELSE LET lo == CHOOSE i \in 1..n : Kept(i) /\ \A j \in 1..(i - 1) : ~Kept(j)
                 hi == CHOOSE i \in 1..n : Kept(i) /\ \A j \in (i + 1)..n : ~Kept(j)
             IN  SubSeq(text, lo, hi)

(***************************************************************************)
(* SimpleRAGSystem._chunk_text                                              *)
(***************************************************************************)
\* default parameters of _chunk_text, and the distance it looks back from the
\* window end for a sentence terminator
chunk_size == 350
overlap == 35
SentenceLookback == 100
\* add_text_document skips a chunk whose stripped length is below this
MinChunkLen == 10

\* the model stops following the chunking loop after this many iterations
MaxChunkIter == 8

SentenceEnd == {".", "!", "?"}

\* lines 451-459: the window end, moved just behind the last sentence
\* terminator found in (max(start + size - 100, start), start + size]
SentenceCut(text, start, size) ==
    LET end == start + size
        lo  == Max(start + size - SentenceLookback, start)
        Hit(i) == PyCh(text, i) \in SentenceEnd
    IN  IF end < Len(text) /\ \E i \in (lo + 1)..end : Hit(i)
        THEN (CHOOSE i \in (lo + 1)..end : Hit(i) /\ \A j \in (i + 1)..end : ~Hit(j)) + 1
        ELSE end

\* lines 461-462: advance end to the next space, or to the end of the text
ExtendToSpace(text, end) ==
    LET Space(i) == PyCh(text, i) = " "
        last == Len(text) - 1
    IN  IF end >= Len(text) THEN end
        ELSE IF \A i \in end..last : ~Space(i) THEN Len(text)
        ELSE CHOOSE i \in end..last : Space(i) /\ \A j \in end..(i - 1) : ~Space(j)

\* lines 470-471: walk start back to the previous space, or to -1
BackToSpace(text, start) ==
    LET Space(i) == PyCh(text, i) = " "
    IN  IF start < 0 \/ start >= Len(text) THEN start
        ELSE IF \A i \in 0..start : ~Space(i) THEN -1
        ELSE CHOOSE i \in 0..start : Space(i) /\ \A j \in (i + 1)..start : ~Space(j)

\* lines 468-475: the start of the next window
NextStart(text, end, ov) ==
    LET s == BackToSpace(text, end - ov)
    IN  IF s >= end THEN end ELSE s

\* lines 450-477: the loop, followed for at most `fuel` iterations
RECURSIVE ChunkLoop(_, _, _, _, _, _)
ChunkLoop(text, size, ov, start, chunks, fuel) ==
    IF ~(start < Len(text)) THEN [chunks |-> chunks, done |-> TRUE]
    ELSE IF fuel = 0 THEN [chunks |-> chunks, done |-> FALSE]
    ELSE LET end   == ExtendToSpace(text, SentenceCut(text, start, size))
             chunk == Strip(PySlice(text, start, end))
             out   == IF chunk # << >> THEN Append(chunks, chunk) ELSE chunks
         IN  ChunkLoop(text, size, ov, NextStart(text, end, ov), out, fuel - 1)

\* lines 432-477 as a run: the chunks, and whether the loop ended within the fuel
ChunkRun(text, size, ov) ==
    IF Len(text) <= size THEN [chunks |-> <<text>>, done |-> TRUE]
    ELSE ChunkLoop(text, size, ov, 0, << >>, MaxChunkIter)

\* _chunk_text with a window of a fiftieth of the size asked for
_chunk_textWithSmallWindow(text, size, ov) ==
    ChunkRun(text, size \div 50, ov \div 50).chunks

_chunk_text(text, size, ov) == ChunkRun(text, size, ov).chunks

(***************************************************************************)
(* The embedding model and the FAISS flat index.                            *)
(*                                                                          *)
(* A vector has two integer components.  Unit length is represented by the  *)
(* length UnitNorm, so a normalized vector is one of length UnitNorm; the   *)
(* raw output of encode has a length that depends on the text.              *)
(***************************************************************************)
UnitNorm == 5
Directions == << <<5, 0>>, <<4, 3>>, <<3, 4>>, <<0, 5>> >>

DefaultModel == "all-MiniLM-L6-v2"
OtherModel == "other-model"
ModelNames == {DefaultModel, OtherModel}

CharCode(c) ==
    CASE c = "a" -> 1 [] c = "b" -> 2 [] c = "c" -> 3 [] c = "d" -> 4 [] OTHER -> 0

\* model.get_sentence_embedding_dimension()
EmbeddingDimension(name) == 2

\* model.encode([text])[0] for the model `name`: a function of the text and of
\* the model, not injective, and not of unit length
encode(name, text) ==
    LET first == IF text = << >> THEN 0 ELSE CharCode(text[1])
        k     == (first + Len(text) + (IF name = DefaultModel THEN 0 ELSE 1)) % 4
        scale == 1 + (Len(text) % 2)
        d     == Directions[k + 1]
    IN  <<scale * d[1], scale * d[2]>>

ISqrt(n) == CHOOSE r \in 0..n : r * r <= n /\ (r + 1) * (r + 1) > n

\* faiss.normalize_L2 on one vector
normalize_L2(v) ==
    LET n == ISqrt(v[1] * v[1] + v[2] * v[2])
    IN  IF n = 0 THEN v ELSE <<(UnitNorm * v[1]) \div n, (UnitNorm * v[2]) \div n>>

\* the vector the engine stores for a chunk, and uses for a query
Embedding(name, text) == normalize_L2(encode(name, text))

\* squared L2 distance, the score of IndexFlatL2
L2(u, v) == (u[1] - v[1]) * (u[1] - v[1]) + (u[2] - v[2]) * (u[2] - v[2])

\* self.index: None, or a flat index holding the vectors vecs in insertion order
NoIndex == [none |-> TRUE, vecs |-> << >>]
IndexFlatL2(vs) == [none |-> FALSE, vecs |-> vs]
ntotal(ix) == Len(ix.vecs)

\* an absent embedding_dimension (None) is written 0: line 526 reads it only
\* for its truth value
NoDimension == 0

(***************************************************************************)
(* Metadata.                                                                *)
(***************************************************************************)
\* a caller's metadata is a mapping; None and {} are both the empty mapping
\* (line 145 treats them alike)
EmptyMeta == [k \in {} |-> ""]

\* lines 145-150: copy of the caller's mapping, updated with the chunk's fields
ChunkMetadata(metadata, doc_id, i) ==
    [doc_id |-> doc_id, chunk_id |-> <<doc_id, "_chunk_", i>>, chunk_index |-> i]
        @@ metadata

(***************************************************************************)
(* The engine object and its data directory.                                *)
(*                                                                          *)
(* The methods are operators from the object's fields (a record) to the     *)
(* fields after the call and whether the call raised.  How the environment  *)
(* behaves during a call (a model that cannot be loaded, an encode or an    *)
(* insertion that raises, a write that fails) is a parameter.               *)
(***************************************************************************)
OK == "ok"
FAIL == "fail"

Ret(r, raised) == [rag |-> r, raised |-> raised]

\* lines 70-84: the fields before load_index runs
NewEngine(embedding_model, use_reranker) ==
    [model               |-> None,
     reranker            |-> None,
     embedding_model     |-> embedding_model,
     use_reranker        |-> use_reranker,
     embedding_dimension |-> NoDimension,
     index               |-> NoIndex,
     documents           |-> << >>,
     metadata            |-> << >>]

\* faiss_index.bin and documents.pkl
NoIndexFile == [exists |-> FALSE, vecs |-> << >>]
NoDataFile ==
    [state |-> "absent", documents |-> << >>, metadata |-> << >>,
     embedding_dimension |-> NoDimension, embedding_model |-> None,
     use_reranker |-> FALSE]
\* documents.pkl opened for writing and not written to the end
CorruptDataFile == [NoDataFile EXCEPT !.state = "corrupt"]
EmptyDir == [index |-> NoIndexFile, data |-> NoDataFile]

\* lines 91-99: the embedding model
LoadEmbeddingModel(r) ==
    [r EXCEPT !.model = r.embedding_model,
              !.embedding_dimension = EmbeddingDimension(r.embedding_model),
              !.index = IF r.index.none THEN IndexFlatL2(<< >>) ELSE r.index]

\* lines 89-105; modelLoad and rerankerLoad say whether SentenceTransformer(...)
\* and CrossEncoder(...) return or raise, when they are called
_ensure_model_loaded(r, modelLoad, rerankerLoad) ==
    IF r.model = None /\ modelLoad = FAIL THEN Ret(r, TRUE)
    ELSE LET r1 == IF r.model = None THEN LoadEmbeddingModel(r) ELSE r
         IN  IF r1.use_reranker /\ r1.reranker = None
             THEN IF rerankerLoad = FAIL THEN Ret(r1, TRUE)
                  ELSE Ret([r1 EXCEPT !.reranker = "loaded"], FALSE)
             ELSE Ret(r1, FALSE)

\* what a call to _ensure_model_loaded attempts in the state r
NeedsModel(r) == r.model = None
NeedsReranker(r) == r.use_reranker /\ r.reranker = None

\* lines 479-500; `out` says which write fails, if any. The exception is
\* swallowed, so the call always returns.
save_index(r, disk, out) ==
    LET withIndex == IF r.index.none THEN disk
                     ELSE [disk EXCEPT !.index = [exists |-> TRUE, vecs |-> r.index.vecs]]
        data == [state |-> "ok", documents |-> r.documents, metadata |-> r.metadata,
                 embedding_dimension |-> r.embedding_dimension,
                 embedding_model |-> r.embedding_model,
                 use_reranker |-> r.use_reranker]
    IN  CASE out = "write_index" /\ ~r.index.none -> disk
          [] out = "open_data" -> withIndex
          [] out = "dump_data" -> [withIndex EXCEPT !.data = CorruptDataFile]
          [] OTHER -> [withIndex EXCEPT !.data = data]

SaveOutcomes == {OK, "write_index", "open_data", "dump_data"}

\* load_index without lines 526-528: the index file is never read
load_indexWithoutIndexFile(r, disk) ==
    IF disk.data.state = "absent" THEN r
    ELSE IF disk.data.state = "corrupt"
    THEN [r EXCEPT !.documents = << >>, !.metadata = << >>]
    ELSE [r EXCEPT !.documents = disk.data.documents,
                   !.metadata = disk.data.metadata,
                   !.embedding_dimension = disk.data.embedding_dimension,
                   !.use_reranker = disk.data.use_reranker]

\* lines 502-534
load_index(r, disk) ==
    IF disk.data.state = "absent" THEN r
    ELSE IF disk.data.state = "corrupt"
    THEN [r EXCEPT !.documents = << >>, !.metadata = << >>]
    ELSE LET r1 == [r EXCEPT !.documents = disk.data.documents,
                             !.metadata = disk.data.metadata,
                             !.embedding_dimension = disk.data.embedding_dimension,
                             !.use_reranker = disk.data.use_reranker]
         IN  IF disk.data.embedding_model # r.embedding_model THEN r1
             ELSE IF disk.index.exists /\ r1.embedding_dimension # NoDimension
             THEN [r1 EXCEPT !.index = IndexFlatL2(disk.index.vecs)]
             ELSE r1

\* lines 61-87: construction over the data directory
Construct(embedding_model, use_reranker, disk) ==
    load_index(NewEngine(embedding_model, use_reranker), disk)

(***************************************************************************)
(* The texts handed to add_text_document.                                   *)
(***************************************************************************)
Chars(c, n) == [i \in 1..n |-> c]

\* by name
\* "short": below the minimum usable length; "one": two sentences, shorter than
\* chunk_size; "three": three windows separated by long runs of spaces, the
\* middle one too short to be used
TextNames == {"short", "one", "three"}
TextOf(name) ==
    CASE name = "short" -> <<"h", "i">>
      [] name = "one"   -> Chars("a", 4) \o <<".", " ">> \o Chars("b", 5) \o <<".">>
      [] name = "three" -> Chars("c", 10) \o <<".">> \o Chars(" ", chunk_size)
                             \o <<"z", "z">> \o Chars(" ", chunk_size)
                             \o Chars("d", 11) \o <<".">>

\* line 123, self._chunk_text(text), for each of the texts
TextChunks == [t \in TextNames |-> _chunk_text(TextOf(t), chunk_size, overlap)]

(***************************************************************************)
(* add_text_document                                                        *)
(***************************************************************************)
\* lines 128-160: the loop over the chunks, from chunk i on. chunkOut[i] says
\* whether processing chunk i (model.encode, index.add) returns or raises; a
\* raise is caught at line 157 and the loop goes on with the next chunk.
RECURSIVE AddChunks(_, _, _, _, _, _, _)
AddChunks(r, chunks, i, doc_id, metadata, chunkOut, added) ==
    IF i >= Len(chunks) THEN [rag |-> r, added |-> added]
    ELSE LET chunk == chunks[i + 1]
         IN  IF Len(Strip(chunk)) < MinChunkLen \/ chunkOut[i] = FAIL
             THEN AddChunks(r, chunks, i + 1, doc_id, metadata, chunkOut, added)
             ELSE LET r1 == [r EXCEPT
                               !.index = IndexFlatL2(Append(r.index.vecs, Embedding(r.model, chunk))),
                               !.documents = Append(r.documents, chunk),
                               !.metadata = Append(r.metadata, ChunkMetadata(metadata, doc_id, i))]
                  IN  AddChunks(r1, chunks, i + 1, doc_id, metadata, chunkOut, added + 1)

\* the two messages add_text_document returns (lines 167 and 172)
AddedMsg(doc_id, added, total) ==
    [op |-> "add_text_document", kind |-> "added", doc_id |-> doc_id,
     added |-> added, total |-> total]
AddErrorMsg(doc_id) ==
    [op |-> "add_text_document", kind |-> "error", doc_id |-> doc_id,
     added |-> 0, total |-> 0]

\* lines 108-176, from the chunks that line 123 computes
add_text_chunks(r, disk, chunks, doc_id, metadata, env) ==
    LET e == _ensure_model_loaded(r, env.modelLoad, env.rerankerLoad)
    IN  IF e.raised
        THEN [rag |-> e.rag, disk |-> disk, result |-> AddErrorMsg(doc_id)]
        ELSE LET a == AddChunks(e.rag, chunks, 0, doc_id, metadata, env.chunk, 0)
             IN  [rag    |-> a.rag,
                  disk   |-> save_index(a.rag, disk, env.save),
                  result |-> AddedMsg(doc_id, a.added, Len(chunks))]

\* lines 108-176; the text is given by its name
add_text_document(r, disk, text, doc_id, metadata, env) ==
    add_text_chunks(r, disk, TextChunks[text], doc_id, metadata, env)

(***************************************************************************)
(* add_pdf_document                                                         *)
(*                                                                          *)
(* A PDF is the sequence of the texts that page.extract_text() returns for  *)
(* its pages.  A Thai character is written by its code point.               *)
(***************************************************************************)
UpperCase ==
    <<"A", "B", "C", "D", "E", "F", "G", "H", "I", "J", "K", "L", "M",
      "N", "O", "P", "Q", "R", "S", "T", "U", "V", "W", "X", "Y", "Z">>
LowerCase ==
    <<"a", "b", "c", "d", "e", "f", "g", "h", "i", "j", "k", "l", "m",
      "n", "o", "p", "q", "r", "s", "t", "u", "v", "w", "x", "y", "z">>

\* str.lower()
Lower(text) ==
    [i \in 1..Len(text) |->
        IF \E k \in 1..26 : UpperCase[k] = text[i]
        THEN LowerCase[CHOOSE k \in 1..26 : UpperCase[k] = text[i]]
        ELSE text[i]]

\* `marker in text`
Contains(text, marker) ==
    \E s \in 0..(Len(text) - Len(marker)) :
        SubSeq(text, s + 1, s + Len(marker)) = marker

\* line 197: 'abstract', and the Thai words for abstract, acknowledgment and
\* table of contents
AbstractMarker == <<"a", "b", "s", "t", "r", "a", "c", "t">>
ThaiBodyStartMarkers ==
    { <<"0E1A", "0E17", "0E04", "0E31", "0E14", "0E22", "0E48", "0E2D">>,
      <<"0E01", "0E34", "0E15", "0E15", "0E34", "0E01", "0E23", "0E23", "0E21",
        "0E1B", "0E23", "0E30", "0E01", "0E32", "0E28">>,
      <<"0E2A", "0E32", "0E23", "0E1A", "0E31", "0E0D">> }
\* line 200: 'reference', and the Thai word for references
ReferenceMarker == <<"r", "e", "f", "e", "r", "e", "n", "c", "e">>
ThaiReferenceMarker ==
    <<"0E40", "0E2D", "0E01", "0E2A", "0E32", "0E23", "0E2D", "0E49", "0E32",
      "0E07", "0E2D", "0E34", "0E07">>

\* the test of line 197 and the test of line 200 on the text of a page
HasBodyStartMarker(page) ==
    \/ Contains(Lower(page), AbstractMarker)
    \/ \E m \in ThaiBodyStartMarkers : Contains(page, m)
HasReferenceMarker(page) ==
    \/ Contains(Lower(page), ReferenceMarker)
    \/ Contains(page, ThaiReferenceMarker)

\* lines 195-203: the loop over the pages, from page i on
RECURSIVE ExtractText(_, _, _)
ExtractText(pages, i, text) ==
    IF i > Len(pages) THEN text
    ELSE IF HasBodyStartMarker(pages[i]) THEN ExtractText(pages, i + 1, text)
    ELSE IF HasReferenceMarker(pages[i]) THEN text
    ELSE ExtractText(pages, i + 1, text \o pages[i] \o <<"\n">>)

\* lines 188-189 and 218-219: the two error returns
PdfErrorMsg(kind) == [op |-> "add_pdf_document", kind |-> kind]

\* lines 178-219. pdf is the file: its path, the stem of its name and its
\* pages; env.read says whether PyPDF2 is installed and the file can be read.
add_pdf_document(r, disk, pdf, doc_id, metadata, env) ==
    IF env.read = "not_installed"
    THEN [rag |-> r, disk |-> disk, text |-> None, result |-> PdfErrorMsg("not_installed")]
    ELSE IF env.read = FAIL
    THEN [rag |-> r, disk |-> disk, text |-> None, result |-> PdfErrorMsg("error")]
    ELSE LET text == ExtractText(pdf.pages, 1, << >>)
             id == IF doc_id = None THEN pdf.stem ELSE doc_id
             pdf_metadata == [source_type |-> "pdf", source_path |-> pdf.path,
                              num_pages |-> Len(pdf.pages)] @@ metadata
             a == add_text_chunks(r, disk, _chunk_text(text, chunk_size, overlap),
                                  id, pdf_metadata, env)
         IN  [rag |-> a.rag, disk |-> a.disk, text |-> text, result |-> a.result]

(***************************************************************************)
(* delete_document and _rebuild_index                                       *)
(***************************************************************************)
\* the subsequence of s at the positions (1-based) that are not in `drop`
RECURSIVE Without(_, _)
Without(s, drop) ==
    IF s = << >> THEN << >>
    ELSE LET init == Without(SubSeq(s, 1, Len(s) - 1), drop)
         IN  IF Len(s) \in drop THEN init ELSE Append(init, s[Len(s)])

\* model.encode(self.documents) followed by normalize_L2 (lines 426-428)
EmbedAll(name, docs) == [i \in 1..Len(docs) |-> Embedding(name, docs[i])]

\* lines 409-430; encodeOut says whether the batch encode/add returns or raises
_rebuild_index(r, modelLoad, rerankerLoad, encodeOut) ==
    LET e == _ensure_model_loaded(r, modelLoad, rerankerLoad)
    IN  IF e.raised THEN e
        ELSE LET r1 == [e.rag EXCEPT !.index = IndexFlatL2(<< >>)]
             IN  IF r1.documents = << >> THEN Ret(r1, FALSE)
                 ELSE IF encodeOut = FAIL THEN Ret(r1, TRUE)
                 ELSE Ret([r1 EXCEPT !.index =
                              IndexFlatL2(EmbedAll(r1.model, r1.documents))], FALSE)

\* the scan stopped at the first chunk of the document
IndicesToRemoveFirst(r, doc_id) ==
    {i \in 1..Len(r.metadata) :
        /\ r.metadata[i].doc_id = doc_id
        /\ \A j \in 1..(i - 1) : r.metadata[j].doc_id # doc_id}

\* lines 385-388 (1-based positions)
IndicesToRemove(r, doc_id) ==
    {i \in 1..Len(r.metadata) : r.metadata[i].doc_id = doc_id}

DeleteMsg(kind, doc_id, n) ==
    [op |-> "delete_document", kind |-> kind, doc_id |-> doc_id, chunks |-> n]

\* delete_document without the early return of lines 390-391: the rebuild and
\* the save run also when nothing was found
delete_documentWithoutEarlyReturn(r, disk, doc_id, env) ==
    LET drop == IndicesToRemove(r, doc_id)
        r1 == [r EXCEPT !.documents = Without(r.documents, drop),
                        !.metadata = Without(r.metadata, drop)]
        b  == _rebuild_index(r1, env.modelLoad, env.rerankerLoad, env.encode)
    IN  IF b.raised
        THEN [rag |-> b.rag, disk |-> disk, result |-> DeleteMsg("error", doc_id, 0)]
        ELSE [rag |-> b.rag, disk |-> save_index(b.rag, disk, env.save),
              result |-> DeleteMsg(IF drop = {} THEN "not_found" ELSE "deleted",
                                   doc_id, Cardinality(drop))]

\* lines 381-407
delete_document(r, disk, doc_id, env) ==
    LET drop == IndicesToRemove(r, doc_id)
    IN  IF drop = {}
        THEN [rag |-> r, disk |-> disk, result |-> DeleteMsg("not_found", doc_id, 0)]
        ELSE LET r1 == [r EXCEPT !.documents = Without(r.documents, drop),
                                 !.metadata = Without(r.metadata, drop)]
                 b  == _rebuild_index(r1, env.modelLoad, env.rerankerLoad, env.encode)
             IN  IF b.raised
                 THEN [rag |-> b.rag, disk |-> disk,
                       result |-> DeleteMsg("error", doc_id, 0)]
                 ELSE [rag |-> b.rag, disk |-> save_index(b.rag, disk, env.save),
                       result |-> DeleteMsg("deleted", doc_id, Cardinality(drop))]

(***************************************************************************)
(* search                                                                   *)
(***************************************************************************)
\* index.search(q, k) on a flat L2 index: the labels (0-based positions) of the
\* k nearest vectors by ascending distance, the earlier position first among
\* equal distances, padded with -1 when the index holds fewer than k vectors
IndexSearch(ix, q, k) ==
    LET n == ntotal(ix)
        Before(a, b) ==
            \/ L2(ix.vecs[a], q) < L2(ix.vecs[b], q)
            \/ L2(ix.vecs[a], q) = L2(ix.vecs[b], q) /\ a < b
        at(j) == CHOOSE a \in 1..n : Cardinality({b \in 1..n : Before(b, a)}) = j - 1
    IN  [j \in 1..k |-> IF j <= n THEN [label |-> at(j) - 1,
                                        score |-> L2(ix.vecs[at(j)], q)]
                        ELSE [label |-> -1, score |-> -1]]

\* reranker.predict on one (query, content) pair: the number of characters of
\* the content that occur in the query; it does not look at the embeddings
RerankScore(query, content) ==
    Cardinality({i \in 1..Len(content) :
                    content[i] \notin Whitespace /\
                    \E j \in 1..Len(query) : query[j] = content[i]})

\* list.sort(key=rerank_score, reverse=True): descending and stable
SortByRerank(cands) ==
    LET n == Len(cands)
        Before(a, b) ==
            \/ cands[a].rerank_score > cands[b].rerank_score
            \/ cands[a].rerank_score = cands[b].rerank_score /\ a < b
    IN  [j \in 1..n |->
            cands[CHOOSE a \in 1..n : Cardinality({b \in 1..n : Before(b, a)}) = j - 1]]

\* the candidates without the cut to n_results
Head_nUncut(s, n) == s

\* candidates[:n_results], lines 283 and 291
Head_n(s, n) == SubSeq(s, 1, Min(n, Len(s)))

\* the entry [{"error": msg}] that search returns instead of results
ErrorList(msg) == << [error |-> msg] >>
IsErrorEntry(e) == "error" \in DOMAIN e

\* the use_reranker argument: None, or a boolean written "True" / "False"
UseRerankerArgs == {None, "True", "False"}
ShouldRerank(r, arg) == IF arg # None THEN arg = "True" ELSE r.use_reranker

\* initial_k without the wider pool for the reranker
InitialKWithoutPool(r, n_results, should_rerank) == Min(n_results, Len(r.documents))

\* lines 243-244
InitialK(r, n_results, should_rerank) ==
    Min(IF should_rerank THEN n_results * 3 ELSE n_results, Len(r.documents))

\* lines 255-263: the hits with a label >= 0, in the order the index returns them
Candidates(r, hits) ==
    LET real == {j \in 1..Len(hits) : hits[j].label >= 0}
    IN  [j \in 1..Cardinality(real) |->
            [content       |-> r.documents[hits[j].label + 1],
             metadata      |-> r.metadata[hits[j].label + 1],
             initial_score |-> hits[j].score,
             index         |-> hits[j].label]]

\* documents[idx] or metadata[idx] raises IndexError for such a hit
CandidatesRaise(r, hits) ==
    \E j \in 1..Len(hits) :
        hits[j].label >= 0 /\
        (hits[j].label >= Len(r.documents) \/ hits[j].label >= Len(r.metadata))

\* lines 265-311: the returned entries. A returned entry carries rerank_score
\* and initial_score only when reranked is TRUE.
Ranked(cands, query, n_results, rerank) ==
    LET scored == [j \in 1..Len(cands) |->
                     [content |-> cands[j].content, metadata |-> cands[j].metadata,
                      initial_score |-> cands[j].initial_score,
                      rerank_score |-> RerankScore(query, cands[j].content)]]
        top == Head_n(IF rerank THEN SortByRerank(scored) ELSE scored, n_results)
    IN  [j \in 1..Len(top) |->
            [content       |-> top[j].content,
             metadata      |-> top[j].metadata,
             score         |-> IF rerank THEN top[j].rerank_score ELSE top[j].initial_score,
             rank          |-> j,
             reranked      |-> rerank,
             initial_score |-> top[j].initial_score]]

\* lines 247-252: the hits of the initial retrieval, once the models are loaded
Hits(r, query, n_results, use_reranker) ==
    IndexSearch(r.index, Embedding(r.model, query),
                InitialK(r, n_results, ShouldRerank(r, use_reranker)))

\* line 266: whether the candidates are re-ranked
Reranks(r, query, n_results, use_reranker) ==
    LET hits == Hits(r, query, n_results, use_reranker)
    IN  /\ ShouldRerank(r, use_reranker)
        /\ r.reranker # None
        /\ ~CandidatesRaise(r, hits)
        /\ Candidates(r, hits) # << >>

\* lines 221-314. env.encode and env.predict say whether model.encode([query])
\* and reranker.predict(pairs) return or raise.
search(r, query, n_results, use_reranker, env) ==
    IF Len(r.documents) = 0
    THEN [rag |-> r, result |-> ErrorList("No documents in the system")]
    ELSE LET e == _ensure_model_loaded(r, env.modelLoad, env.rerankerLoad)
             r1 == e.rag
             hits == Hits(r1, query, n_results, use_reranker)
             rerank == Reranks(r1, query, n_results, use_reranker)
         IN  IF \/ e.raised
                \/ env.encode = FAIL
                \/ CandidatesRaise(r1, hits)
                \/ rerank /\ env.predict = FAIL
             THEN [rag |-> r1, result |-> ErrorList("Search failed")]
             ELSE [rag |-> r1,
                   result |-> Ranked(Candidates(r1, hits), query, n_results, rerank)]

(***************************************************************************)
(* get_context_for_query                                                    *)
(***************************************************************************)
\* line 328: the number of results asked of search; line 317: the default
\* of max_context_length
ContextResults == 5
DefaultMaxContextLength == 2000

\* the string literals of lines 331, 346 and 356, as sequences of characters
NoContextFound ==
    <<"N", "o", " ", "r", "e", "l", "e", "v", "a", "n", "t", " ", "c", "o",
      "n", "t", "e", "x", "t", " ", "f", "o", "u", "n", "d", ".">>
ContextHeader ==
    <<"R", "e", "l", "e", "v", "a", "n", "t", " ", "c", "o", "n", "t", "e",
      "x", "t", ":", "\n", "\n">>
ContextSeparator ==
    <<"\n", "-", "-", "-", "\n">>
SourcePrefix ==
    <<"[", "S", "o", "u", "r", "c", "e", ":", " ">>
RelevancePrefix ==
    <<" ", "|", " ", "R", "e", "l", "e", "v", "a", "n", "c", "e", ":", " ">>

\* str(n) for a natural number n
RECURSIVE Digits(_)
Digits(n) ==
    LET d == <<"0", "1", "2", "3", "4", "5", "6", "7", "8", "9">>[(n % 10) + 1]
    IN  IF n < 10 THEN <<d>> ELSE Append(Digits(n \div 10), d)

\* f"{score:.3f}" of a score that is a whole number
FormatScore(score) ==
    (IF score < 0 THEN <<"-">> \o Digits(-score) ELSE Digits(score))
        \o <<".", "0", "0", "0">>

\* the characters of a doc_id
DocIdText(doc_id) ==
    CASE doc_id = "d1" -> <<"d", "1">>
      [] doc_id = "d2" -> <<"d", "2">>
      [] OTHER -> <<"u", "n", "k", "n", "o", "w", "n">>

\* lines 340-346: context_piece of one result
ContextPiece(entry) ==
    SourcePrefix \o DocIdText(entry.metadata.doc_id) \o RelevancePrefix
        \o FormatScore(entry.score) \o <<"]", "\n">> \o entry.content \o <<"\n">>

\* the loop of lines 336-353 with the piece that does not fit skipped
\* instead of ending the loop
RECURSIVE ContextPartsSkipping(_, _, _, _, _)
ContextPartsSkipping(results, j, parts, current_length, max_context_length) ==
    IF j > Len(results) THEN parts
    ELSE IF IsErrorEntry(results[j])
              \/ current_length + Len(ContextPiece(results[j])) > max_context_length
    THEN ContextPartsSkipping(results, j + 1, parts, current_length, max_context_length)
    ELSE ContextPartsSkipping(results, j + 1, Append(parts, ContextPiece(results[j])),
                              current_length + Len(ContextPiece(results[j])),
                              max_context_length)

\* lines 336-353: the loop over the results from result j on
RECURSIVE ContextParts(_, _, _, _, _)
ContextParts(results, j, parts, current_length, max_context_length) ==
    IF j > Len(results) THEN parts
    ELSE IF IsErrorEntry(results[j])
    THEN ContextParts(results, j + 1, parts, current_length, max_context_length)
    ELSE LET context_piece == ContextPiece(results[j])
         IN  IF current_length + Len(context_piece) > max_context_length
             THEN parts
             ELSE ContextParts(results, j + 1, Append(parts, context_piece),
                               current_length + Len(context_piece), max_context_length)

\* "\n---\n".join(context_parts)
RECURSIVE JoinParts(_)
JoinParts(parts) ==
    IF parts = << >> THEN << >>
    ELSE IF Len(parts) = 1 THEN parts[1]
    ELSE parts[1] \o ContextSeparator \o JoinParts(Tail(parts))

\* the header and the parts also when there is no part
ContextTextWithoutSentinel(parts) == ContextHeader \o JoinParts(parts)

\* lines 355-358
ContextText(parts) ==
    IF parts # << >> THEN ContextHeader \o JoinParts(parts) ELSE NoContextFound

\* lines 317-358; results is what the inner search returned
get_context_for_query(r, query, max_context_length, use_reranker, env) ==
    LET s == search(r, query, ContextResults, use_reranker, env)
        search_results == s.result
    IN  [rag     |-> s.rag,
         results |-> search_results,
         result  |-> IF search_results = << >> \/ IsErrorEntry(search_results[1])
                     THEN NoContextFound
                     ELSE ContextText(ContextParts(search_results, 1, << >>, 0,
                                                   max_context_length))]

(***************************************************************************)
(* list_documents and get_stats                                             *)
(***************************************************************************)
\* lines 538-552: the two counts
get_stats(r) ==
    [total_chunks    |-> Len(r.documents),
     total_documents |-> Cardinality({r.metadata[i].doc_id : i \in 1..Len(r.metadata)}),
     has_index       |-> ~r.index.none]

\* list_documents with lines 367-375 run for every chunk: one entry per chunk
list_documentsPerChunk(r) ==
    [i \in 1..Len(r.metadata) |->
        [doc_id |-> r.metadata[i].doc_id,
         metadata |-> [f \in DOMAIN r.metadata[i] \ {"chunk_id", "chunk_index"} |->
                          r.metadata[i][f]],
         chunks |-> 1]]

\* lines 365-377: the loop over self.metadata, from entry i on. doc_info is the
\* dict, as the sequence of its values in insertion order.
RECURSIVE ListLoop(_, _, _)
ListLoop(metadata, i, doc_info) ==
    IF i > Len(metadata) THEN doc_info
    ELSE LET meta == metadata[i]
             known == \E k \in 1..Len(doc_info) : doc_info[k].doc_id = meta.doc_id
             entered ==
                 IF known THEN doc_info
                 ELSE Append(doc_info,
                             [doc_id |-> meta.doc_id,
                              metadata |-> [f \in DOMAIN meta \ {"chunk_id", "chunk_index"} |->
                                               meta[f]],
                              chunks |-> 0])
         IN  ListLoop(metadata, i + 1,
                      [k \in 1..Len(entered) |->
                          IF entered[k].doc_id = meta.doc_id
                          THEN [entered[k] EXCEPT !.chunks = @ + 1]
                          ELSE entered[k]])

\* lines 360-379
list_documents(r) == ListLoop(r.metadata, 1, << >>)

(***************************************************************************)
(* ImprovedRAGSystem._smart_chunk_text (src/src/full_llm.py)                *)
(***************************************************************************)
\* default parameters of _smart_chunk_text
SmartChunkSize == 400
SmartOverlap == 50
SmartMinChunkSize == 100

\* text.replace('!', '.').replace('?', '.')
WithDots(text) == [i \in 1..Len(text) |-> IF text[i] \in {"!", "?"} THEN "." ELSE text[i]]

\* str.split('.'): the pieces between the dots, empty pieces included
SplitAtDots(text) ==
    LET dots == {i \in 1..Len(text) : text[i] = "."}
        \* the position of the k-th dot; 0 before the first, Len + 1 after the last
        dot(k) == IF k = 0 THEN 0
                  ELSE IF k > Cardinality(dots) THEN Len(text) + 1
                  ELSE CHOOSE i \in dots : Cardinality({j \in dots : j < i}) = k - 1
    IN  [k \in 1..(Cardinality(dots) + 1) |-> SubSeq(text, dot(k - 1) + 1, dot(k) - 1)]

\* lines 436-437: the stripped, non-empty sentences of the text
Sentences(text) ==
    LET pieces == SplitAtDots(WithDots(text))
        stripped == [k \in 1..Len(pieces) |-> Strip(pieces[k])]
        NonEmpty(piece) == piece # << >>
    IN  SelectSeq(stripped, NonEmpty)

\* '. '.join(current_chunk) + '.'
RECURSIVE JoinSentences(_)
JoinSentences(current_chunk) ==
    IF Len(current_chunk) = 1 THEN current_chunk[1] \o <<".">>
    ELSE current_chunk[1] \o <<".", " ">> \o JoinSentences(Tail(current_chunk))

\* lines 456-464: the sentences taken from the end of current_chunk, the last
\* one first, as long as their lengths fit in the overlap; k is the number of
\* sentences not yet looked at
RECURSIVE OverlapSentences(_, _, _, _)
OverlapSentences(current_chunk, k, ov, taken) ==
    IF k = 0 THEN taken
    ELSE IF taken.length + Len(current_chunk[k]) <= ov
    THEN OverlapSentences(current_chunk, k - 1, ov,
                          [sentences |-> <<current_chunk[k]>> \o taken.sentences,
                           length |-> taken.length + Len(current_chunk[k])])
    ELSE taken

\* lines 450-453 and 472-475: the chunks with the buffer emitted, if it is not
\* empty and its text is long enough
Emit(chunks, current_chunk, min) ==
    IF current_chunk # << >> /\ Len(JoinSentences(current_chunk)) >= min
    THEN Append(chunks, JoinSentences(current_chunk))
    ELSE chunks

\* the loop variables before the first sentence (lines 439-441)
SmartStart == [chunks |-> << >>, current_chunk |-> << >>, current_length |-> 0]

\* lines 443-470: one iteration of the loop over the sentences
SmartStep(st, sentence, size, ov, min) ==
    IF st.current_length + Len(sentence) <= size
    THEN [st EXCEPT !.current_chunk = Append(@, sentence),
                    !.current_length = @ + Len(sentence)]
    ELSE LET chunks == Emit(st.chunks, st.current_chunk, min)
             kept == OverlapSentences(st.current_chunk, Len(st.current_chunk), ov,
                                      [sentences |-> << >>, length |-> 0])
         IN  IF ov > 0 /\ st.current_chunk # << >>
             THEN [chunks |-> chunks,
                   current_chunk |-> Append(kept.sentences, sentence),
                   current_length |-> kept.length + Len(sentence)]
             ELSE [chunks |-> chunks,
                   current_chunk |-> <<sentence>>,
                   current_length |-> Len(sentence)]

RECURSIVE SmartLoop(_, _, _, _, _, _)
SmartLoop(sentences, i, st, size, ov, min) ==
    IF i > Len(sentences) THEN st
    ELSE SmartLoop(sentences, i + 1, SmartStep(st, sentences[i], size, ov, min),
                   size, ov, min)

\* lines 432-433: a text that fits one chunk
SmartWhole(text, min) == IF Len(text) >= min THEN <<text>> ELSE << >>

\* lines 424-477
_smart_chunk_text(text, size, ov, min) ==
    IF Len(text) <= size THEN SmartWhole(text, min)
    ELSE LET st == SmartLoop(Sentences(text), 1, SmartStart, size, ov, min)
         IN  Emit(st.chunks, st.current_chunk, min)

(***************************************************************************)
(* ImprovedRAGSystem (src/src/full_llm.py): the engine with a result cache. *)
(*                                                                          *)
(* The object is a record of its fields together with `dir`, the files      *)
(* faiss_index.bin and data.pkl of its data directory.                      *)
(***************************************************************************)
\* self.embedding_cache = {}
EmptyCache == [key \in {} |-> << >>]

\* an empty data directory
EmptyImprovedDir ==
    [index |-> NoIndexFile,
     data  |-> [state |-> "absent", documents |-> << >>, metadata |-> << >>,
                embedding_dimension |-> NoDimension]]

\* lines 331-356 and 582-600: construction over the data directory
ImprovedOn(use_reranker, cache_embeddings, dir) ==
    LET new == [model |-> None, reranker |-> None,
                use_reranker |-> use_reranker, cache_embeddings |-> cache_embeddings,
                index |-> NoIndex, embedding_dimension |-> NoDimension,
                documents |-> << >>, metadata |-> << >>,
                embedding_cache |-> EmptyCache, dir |-> dir]
    IN  IF dir.data.state # "ok" THEN new
        ELSE LET r1 == [new EXCEPT !.documents = dir.data.documents,
                                   !.metadata = dir.data.metadata,
                                   !.embedding_dimension = dir.data.embedding_dimension]
             IN  IF dir.index.exists /\ r1.embedding_dimension # NoDimension
                 THEN [r1 EXCEPT !.index = IndexFlatL2(dir.index.vecs)]
                 ELSE r1

\* lines 358-374. A model that cannot be loaded raises; a reranker that
\* cannot be loaded switches use_reranker off.
_ensure_models_loaded(r, modelLoad, rerankerLoad) ==
    IF r.model = None /\ modelLoad = FAIL THEN Ret(r, TRUE)
    ELSE LET r1 == IF r.model # None THEN r
                   ELSE [r EXCEPT !.model = DefaultModel,
                                  !.embedding_dimension = EmbeddingDimension(DefaultModel),
                                  !.index = IF r.index.none THEN IndexFlatL2(<< >>)
                                            ELSE r.index]
         IN  IF r1.use_reranker /\ r1.reranker = None
             THEN IF rerankerLoad = FAIL
                  THEN Ret([r1 EXCEPT !.use_reranker = FALSE], FALSE)
                  ELSE Ret([r1 EXCEPT !.reranker = "loaded"], FALSE)
             ELSE Ret(r1, FALSE)

\* lines 566-580; `out` says which write fails, if any
Improved_save_index(r, out) ==
    LET withIndex == IF r.index.none THEN r.dir
                     ELSE [r.dir EXCEPT !.index = [exists |-> TRUE, vecs |-> r.index.vecs]]
        data == [state |-> "ok", documents |-> r.documents, metadata |-> r.metadata,
                 embedding_dimension |-> r.embedding_dimension]
    IN  [r EXCEPT !.dir =
            CASE out = "write_index" /\ ~r.index.none -> r.dir
              [] out = "open_data" -> withIndex
              [] out = "dump_data" -> [withIndex EXCEPT !.data.state = "corrupt"]
              [] OTHER -> [withIndex EXCEPT !.data = data]]

\* the texts handed to ImprovedRAGSystem.add_text_document, by name: "note"
\* is shorter than min_chunk_size, "para" is one sentence of min_chunk_size
\* characters, "essay" is three sentences of 150 characters
ImprovedTextNames == {"note", "para", "essay"}
ImprovedTextOf(name) ==
    CASE name = "note"  -> Chars("a", 20) \o <<".">>
      [] name = "para"  -> Chars("a", SmartMinChunkSize - 1) \o <<".">>
      [] name = "essay" -> Chars("b", 150) \o <<".", " ">> \o Chars("c", 150)
                             \o <<"?", " ">> \o Chars("a", 150) \o <<".">>

\* line 388, self._smart_chunk_text(text), for each of the texts
ImprovedChunks ==
    [t \in ImprovedTextNames |->
        _smart_chunk_text(ImprovedTextOf(t), SmartChunkSize, SmartOverlap,
                          SmartMinChunkSize)]

\* what the calls on an ImprovedRAGSystem return besides result lists
ImprovedMsg(kind, doc_id, n) ==
    [op |-> "add_text_document", kind |-> kind, doc_id |-> doc_id, chunks |-> n]

\* lines 376-422. The model is loaded outside the try block, so a failure to
\* load it reaches the caller; an empty list of chunks makes normalize_L2
\* raise, like a failing encode or index.add, and the except clause returns
\* the error message.
Improved_add_text_document(r, text, doc_id, metadata, env) ==
    LET e == _ensure_models_loaded(r, env.modelLoad, env.rerankerLoad)
        r1 == e.rag
        chunks == ImprovedChunks[text]
    IN  IF e.raised THEN [rag |-> r1, result |-> ImprovedMsg("raised", doc_id, 0)]
        ELSE IF chunks = << >> \/ env.encode = FAIL \/ env.add = FAIL
        THEN [rag |-> r1, result |-> ImprovedMsg("error", doc_id, 0)]
        ELSE LET r2 == [r1 EXCEPT
                          !.index = IndexFlatL2(
                              r1.index.vecs \o
                              [i \in 1..Len(chunks) |-> Embedding(r1.model, chunks[i])]),
                          !.documents = @ \o chunks,
                          !.metadata = @ \o [i \in 1..Len(chunks) |->
                                                ChunkMetadata(metadata, doc_id, i - 1)]]
             IN  [rag |-> Improved_save_index(r2, env.save),
                  result |-> ImprovedMsg("added", doc_id, Len(chunks))]

\* line 492: md5 of f"{query}_{n_results}"
CacheKey(query, n_results) == <<query, n_results>>

\* lines 502-514: the hits with a position inside documents
ImprovedCandidates(r, query, n_results) ==
    LET k == Min(IF r.use_reranker THEN n_results * 3 ELSE n_results, Len(r.documents))
        hits == IndexSearch(r.index, Embedding(r.model, query), k)
        inside == SelectSeq(hits, LAMBDA h : h.label >= 0 /\ h.label < Len(r.documents))
    IN  [j \in 1..Len(inside) |->
            [content  |-> r.documents[inside[j].label + 1],
             metadata |-> r.metadata[inside[j].label + 1],
             score    |-> inside[j].score,
             index    |-> inside[j].label]]

\* line 517: whether the results are re-ranked
ImprovedReranks(r, results) == r.use_reranker /\ r.reranker # None /\ results # << >>

\* lines 518-525: the re-ranked results, cut to n_results
ImprovedReranked(results, query, n_results) ==
    Head_n(SortByRerank([j \in 1..Len(results) |->
                            [rerank_score |-> RerankScore(query, results[j].content)]
                                @@ results[j]]),
           n_results)

\* lines 496-525: what the try block computes when nothing raises, on an
\* engine whose models are loaded
ImprovedResults(r, query, n_results) ==
    LET results == ImprovedCandidates(r, query, n_results)
    IN  IF ImprovedReranks(r, results) THEN ImprovedReranked(results, query, n_results)
        ELSE results

\* lines 479-535. The use_reranker argument is not read. cached says whether
\* the result came from embedding_cache.
Improved_search(r, query, n_results, env) ==
    IF r.documents = << >> THEN [rag |-> r, result |-> << >>, cached |-> FALSE]
    ELSE LET e == _ensure_models_loaded(r, env.modelLoad, env.rerankerLoad)
             r1 == e.rag
             key == CacheKey(query, n_results)
         IN  IF e.raised THEN [rag |-> r1, result |-> "raised", cached |-> FALSE]
             ELSE IF r1.cache_embeddings /\ key \in DOMAIN r1.embedding_cache
             THEN [rag |-> r1, result |-> r1.embedding_cache[key], cached |-> TRUE]
             ELSE IF \/ env.encode = FAIL
                     \/ r1.index.none
                     \/ Len(r1.metadata) < Len(r1.documents)
                     \/ (ImprovedReranks(r1, ImprovedCandidates(r1, query, n_results))
                           /\ env.predict = FAIL)
             THEN [rag |-> r1, result |-> << >>, cached |-> FALSE]
             ELSE LET results == ImprovedResults(r1, query, n_results)
                  IN  [rag |-> IF r1.cache_embeddings
                               THEN [r1 EXCEPT !.embedding_cache = (key :> results) @@ @]
                               ELSE r1,
                       result |-> results, cached |-> FALSE]

\* the snapshot an earlier ImprovedRAGSystem left behind after
\* add_text_document of the text "para" as document d1
SavedImprovedDir ==
    Improved_add_text_document(
        ImprovedOn(TRUE, TRUE, EmptyImprovedDir), "para", "d1", EmptyMeta,
        [modelLoad |-> OK, rerankerLoad |-> OK, encode |-> OK, add |-> OK,
         save |-> OK]).rag.dir

(***************************************************************************)
(* Inputs.                                                                  *)
(***************************************************************************)
DocIds == {"d1", "d2"}
\* the metadata each document is added with: d1 with none, d2 with a mapping
MetaOf(doc_id) == IF doc_id = "d1" THEN EmptyMeta ELSE [source_type |-> "text"]
Queries == {<<"a">>, <<"b", "c">>}
\* the arguments the engine is constructed with
EngineConfigs ==
    {[embedding_model |-> DefaultModel, use_reranker |-> TRUE],
     [embedding_model |-> DefaultModel, use_reranker |-> FALSE],
     [embedding_model |-> OtherModel, use_reranker |-> TRUE]}

\* bounds of the model: calls made on the data directory, failures of the
\* environment (a load, an encode, an insertion or a write that raises) over
\* all calls, and n_results
MaxCalls == 2
MaxFaults == 1
MaxResults == 2

(***************************************************************************)
(* State.                                                                   *)
(***************************************************************************)
VARIABLES
    rag,      \* the fields of the SimpleRAGSystem object in use
    disk,     \* the data directory: faiss_index.bin and documents.pkl
    result,   \* what the last call returned
    call,     \* the last call: its arguments and how the environment behaved
    pre,      \* the index, documents and metadata when the last call started
    ncalls,   \* calls made so far
    nfaults,  \* failures of the environment so far
    pc,       \* for each thread, the statement it is at ("idle" between calls)
    local,    \* for each thread, the arguments and local variables of its call
    chunker,  \* a call of a chunker followed iteration by iteration
    improved  \* the fields of an ImprovedRAGSystem object, and its data directory

vars == <<rag, disk, result, call, pre, ncalls, nfaults, pc, local, chunker, improved>>

\* no call of _chunk_text is being followed
NoChunker ==
    [pc |-> "idle", text |-> << >>, size |-> 0, ov |-> 0, start |-> 0, prev |-> 0,
     iter |-> 0, chunks |-> << >>]

\* the threads that share the object when calls run concurrently
Threads == {"t1", "t2"}

NotSeen == [done |-> FALSE, ntotal |-> 0, documents |-> 0, metadata |-> 0]
\* a thread's locals before its first call. seen is what its search read from
\* the index and from the store; built counts the models it constructed.
IdleLocal ==
    [op |-> "none", text |-> "none", doc_id |-> "none", query |-> << >>,
     n_results |-> 0, use_reranker |-> None,
     ret |-> "idle", i |-> 0, added |-> 0, todo |-> << >>, found |-> 0,
     empty |-> FALSE,
     embeddings |-> << >>, k |-> 0, hits |-> << >>, seen |-> NotSeen,
     built |-> [model |-> 0, reranker |-> 0]]

NoResult == [op |-> "none"]

\* the part of the object that holds the chunks
Store(r) == [index |-> r.index, documents |-> r.documents, metadata |-> r.metadata]

\* the outcomes of a step of a call: it can fail only if the call reaches it
\* and the environment has a failure left
Outcomes(reached, used) == IF reached /\ nfaults + used < MaxFaults THEN {OK, FAIL} ELSE {OK}
Failed(outcome) == IF outcome = OK THEN 0 ELSE 1
Attempt(reached, outcome) == IF reached THEN outcome ELSE "none"

\* the environment of a call in which nothing fails
NoFailure ==
    [modelLoad |-> OK, rerankerLoad |-> OK, chunk |-> [i \in 0..2 |-> OK],
     encode |-> OK, predict |-> OK, save |-> OK]

\* the snapshot an earlier engine left behind after add_text_document of the
\* text "three" as document d1
SavedDir ==
    add_text_document(Construct(DefaultModel, TRUE, EmptyDir), EmptyDir,
                      "three", "d1", MetaOf("d1"), NoFailure).disk

\* Construction with the default arguments, on an empty data directory or on
\* one that holds a snapshot
Init ==
    /\ disk \in {EmptyDir, SavedDir}
    /\ rag = Construct(DefaultModel, TRUE, disk)
    /\ result = NoResult
    /\ call = [op |-> "construct", embedding_model |-> DefaultModel, use_reranker |-> TRUE]
    /\ pre = Store(NewEngine(DefaultModel, TRUE))
    /\ ncalls = 0
    /\ nfaults = 0
    /\ pc = [t \in Threads |-> "idle"]
    /\ local = [t \in Threads |-> IdleLocal]
    /\ chunker = NoChunker
    /\ improved = ImprovedOn(TRUE, TRUE, EmptyImprovedDir)

\* A new SimpleRAGSystem is constructed on the data directory (the process is
\* restarted, or the UI initialises the engine again)
Restart ==
    /\ ncalls < MaxCalls
    /\ \E c \in EngineConfigs :
          /\ rag' = Construct(c.embedding_model, c.use_reranker, disk)
          /\ call' = [op |-> "construct", embedding_model |-> c.embedding_model,
                      use_reranker |-> c.use_reranker]
          /\ pre' = Store(NewEngine(c.embedding_model, c.use_reranker))
    /\ result' = NoResult
    /\ ncalls' = ncalls + 1
    /\ UNCHANGED <<disk, nfaults, pc, local, chunker, improved>>

\* the chunks of a text that the loop at line 128 does not skip as too short
Usable(chunks) == {i \in 0..(Len(chunks) - 1) : Len(Strip(chunks[i + 1])) >= MinChunkLen}

\* the loads a call to _ensure_model_loaded makes in the state r, with their outcomes
Loads(r) ==
    {l \in [modelLoad : Outcomes(NeedsModel(r), 0), rerankerLoad : Outcomes(NeedsReranker(r), 0)] :
        l.modelLoad = FAIL => l.rerankerLoad = OK}
LoadFaults(l) == Failed(l.modelLoad) + Failed(l.rerankerLoad)
LoadsDone(l) == l.modelLoad = OK /\ l.rerankerLoad = OK
ModelLoadOf(r, l) == Attempt(NeedsModel(r), l.modelLoad)
RerankerLoadOf(r, l) == Attempt(NeedsReranker(r) /\ l.modelLoad = OK, l.rerankerLoad)

AddTextDocument ==
    /\ ncalls < MaxCalls
    /\ \E t \in TextNames, doc_id \in DocIds, l \in Loads(rag) :
       \E failed \in {f \in SUBSET Usable(TextChunks[t]) :
                         /\ ~LoadsDone(l) => f = {}
                         /\ nfaults + Cardinality(f) <= MaxFaults} :
       \E save \in IF LoadsDone(l) THEN {o \in SaveOutcomes :
                                            o = OK \/ nfaults + Cardinality(failed) < MaxFaults}
                   ELSE {OK} :
          LET env == [modelLoad |-> l.modelLoad, rerankerLoad |-> l.rerankerLoad,
                      chunk |-> [i \in 0..(Len(TextChunks[t]) - 1) |->
                                    IF i \in failed THEN FAIL ELSE OK],
                      save |-> save]
          IN  \E out \in {add_text_document(rag, disk, t, doc_id, MetaOf(doc_id), env)} :
              /\ rag' = out.rag
              /\ disk' = out.disk
              /\ result' = out.result
              /\ call' = [op |-> "add_text_document", text |-> t, doc_id |-> doc_id,
                          modelLoad |-> ModelLoadOf(rag, l),
                          rerankerLoad |-> RerankerLoadOf(rag, l),
                          failed |-> failed,
                          save |-> Attempt(LoadsDone(l), save)]
              /\ nfaults' = nfaults + LoadFaults(l) + Cardinality(failed) + Failed(save)
    /\ pre' = Store(rag)
    /\ ncalls' = ncalls + 1
    /\ UNCHANGED <<pc, local, chunker, improved>>

\* the object after lines 393-396 of delete_document(doc_id)
AfterRemoval(r, doc_id) ==
    [r EXCEPT !.documents = Without(r.documents, IndicesToRemove(r, doc_id)),
              !.metadata = Without(r.metadata, IndicesToRemove(r, doc_id))]

DeleteDocument ==
    /\ ncalls < MaxCalls
    /\ \E doc_id \in DocIds :
       LET found == IndicesToRemove(rag, doc_id) # {}
           r1 == AfterRemoval(rag, doc_id)
       IN
       \E l \in IF found THEN Loads(r1) ELSE {[modelLoad |-> OK, rerankerLoad |-> OK]} :
       \E enc \in Outcomes(found /\ LoadsDone(l) /\ r1.documents # << >>, 0) :
       \E save \in IF found /\ LoadsDone(l) /\ enc = OK /\ nfaults < MaxFaults
                   THEN SaveOutcomes ELSE {OK} :
          LET env == [modelLoad |-> l.modelLoad, rerankerLoad |-> l.rerankerLoad,
                      encode |-> enc, save |-> save]
          IN  \E out \in {delete_document(rag, disk, doc_id, env)} :
              /\ rag' = out.rag
              /\ disk' = out.disk
              /\ result' = out.result
              /\ call' = [op |-> "delete_document", doc_id |-> doc_id,
                          modelLoad |-> Attempt(found, ModelLoadOf(r1, l)),
                          rerankerLoad |-> Attempt(found, RerankerLoadOf(r1, l)),
                          encode |-> Attempt(found /\ LoadsDone(l) /\ r1.documents # << >>, enc),
                          save |-> Attempt(found /\ LoadsDone(l) /\ enc = OK, save)]
              /\ nfaults' = nfaults + LoadFaults(l) + Failed(enc) + Failed(save)
    /\ pre' = Store(rag)
    /\ ncalls' = ncalls + 1
    /\ UNCHANGED <<pc, local, chunker, improved>>

Search ==
    /\ ncalls < MaxCalls
    /\ \E query \in Queries, n_results \in 1..MaxResults, use \in UseRerankerArgs :
       LET nonempty == Len(rag.documents) # 0 IN
       \E l \in IF nonempty THEN Loads(rag) ELSE {[modelLoad |-> OK, rerankerLoad |-> OK]} :
       \E enc \in Outcomes(nonempty /\ LoadsDone(l), 0) :
          LET \* reranker.predict is reached when line 266 holds
              reranks == /\ nonempty /\ LoadsDone(l) /\ enc = OK
                         /\ Reranks(_ensure_model_loaded(rag, OK, OK).rag,
                                    query, n_results, use)
          IN
          \E predict \in Outcomes(reranks, 0) :
             LET env == [modelLoad |-> l.modelLoad, rerankerLoad |-> l.rerankerLoad,
                         encode |-> enc, predict |-> predict]
             IN  \E out \in {search(rag, query, n_results, use, env)} :
                 /\ rag' = out.rag
                 /\ result' = [op |-> "search", list |-> out.result]
                 /\ call' = [op |-> "search", query |-> query, n_results |-> n_results,
                             use_reranker |-> use,
                             modelLoad |-> Attempt(nonempty, ModelLoadOf(rag, l)),
                             rerankerLoad |-> Attempt(nonempty, RerankerLoadOf(rag, l)),
                             encode |-> Attempt(nonempty /\ LoadsDone(l), enc),
                             predict |-> Attempt(reranks, predict)]
                 /\ nfaults' = nfaults + LoadFaults(l) + Failed(enc) + Failed(predict)
    /\ pre' = Store(rag)
    /\ ncalls' = ncalls + 1
    /\ UNCHANGED <<disk, pc, local, chunker, improved>>

\* the values of max_context_length: around the length of one and of two
\* context pieces of the stored chunks, and the default
ContextLengths == {43, 44, 89, DefaultMaxContextLength}

GetContextForQuery ==
    /\ ncalls < MaxCalls
    /\ \E query \in Queries, max_context_length \in ContextLengths,
          use \in UseRerankerArgs :
       LET nonempty == Len(rag.documents) # 0 IN
       \E l \in IF nonempty THEN Loads(rag) ELSE {[modelLoad |-> OK, rerankerLoad |-> OK]} :
       \E enc \in Outcomes(nonempty /\ LoadsDone(l), 0) :
          LET reranks == /\ nonempty /\ LoadsDone(l) /\ enc = OK
                         /\ Reranks(_ensure_model_loaded(rag, OK, OK).rag,
                                    query, ContextResults, use)
          IN
          \E predict \in Outcomes(reranks, 0) :
             LET env == [modelLoad |-> l.modelLoad, rerankerLoad |-> l.rerankerLoad,
                         encode |-> enc, predict |-> predict]
             IN  \E out \in {get_context_for_query(rag, query, max_context_length,
                                                   use, env)} :
                 /\ rag' = out.rag
                 /\ result' = [op |-> "get_context_for_query", text |-> out.result]
                 /\ call' = [op |-> "get_context_for_query", query |-> query,
                             max_context_length |-> max_context_length,
                             use_reranker |-> use,
                             results |-> out.results]
                 /\ nfaults' = nfaults + LoadFaults(l) + Failed(enc) + Failed(predict)
    /\ pre' = Store(rag)
    /\ ncalls' = ncalls + 1
    /\ UNCHANGED <<disk, pc, local, chunker, improved>>

Next == Restart \/ AddTextDocument \/ DeleteDocument \/ Search

Spec == Init /\ [][Next]_vars

\* the engine as get_context_for_query reads it: constructed, filled by
\* add_text_document, and asked for the context of a query
ContextNext == Restart \/ AddTextDocument \/ GetContextForQuery

SpecContext == Init /\ [][ContextNext]_vars

ListDocuments ==
    /\ ncalls < MaxCalls
    /\ result' = [op |-> "list_documents", list |-> list_documents(rag)]
    /\ call' = [op |-> "list_documents"]
    /\ pre' = Store(rag)
    /\ ncalls' = ncalls + 1
    /\ UNCHANGED <<rag, disk, nfaults, pc, local, chunker, improved>>

\* the engine as list_documents reads it: constructed, filled and emptied by
\* add_text_document and delete_document
ListNext == Restart \/ AddTextDocument \/ DeleteDocument \/ ListDocuments

SpecList == Init /\ [][ListNext]_vars

(***************************************************************************)
(* Calls that run concurrently on one object.                               *)
(*                                                                          *)
(* The class takes no lock, so the statements of two calls interleave.      *)
(* Each action below is one statement of the source (with the computation   *)
(* on locals that precedes it) executed by thread t.  Nothing fails in the  *)
(* environment here: an exception can only come from the interleaving.      *)
(***************************************************************************)
At(t, label) == pc[t] = label
Goto(t, label) == pc' = [pc EXCEPT ![t] = label]

\* thread t's call returns res
Return(t, res) ==
    /\ Goto(t, "idle")
    /\ result' = res
    /\ call' = [op |-> local[t].op, thread |-> t]

\* thread t starts a call with the arguments in l, at the statement first
Begin(t, l, first) ==
    /\ At(t, "idle")
    /\ ncalls < MaxCalls
    /\ ncalls' = ncalls + 1
    /\ pre' = Store(rag)
    /\ local' = [local EXCEPT ![t] = [l EXCEPT !.built = local[t].built]]
    /\ Goto(t, first)
    /\ UNCHANGED <<rag, disk, result, call, nfaults, chunker, improved>>

\* ---- _ensure_model_loaded, lines 89-105 ----
\* line 91: if self.model is None
EnsModelCheck(t) ==
    /\ At(t, "ens_model_check")
    /\ Goto(t, IF rag.model = None THEN "ens_model_load" ELSE "ens_reranker_check")
    /\ UNCHANGED <<rag, disk, result, call, pre, ncalls, nfaults, local, chunker, improved>>

\* line 94: self.model = SentenceTransformer(self.embedding_model)
EnsModelLoad(t) ==
    /\ At(t, "ens_model_load")
    /\ rag' = [rag EXCEPT !.model = rag.embedding_model]
    /\ local' = [local EXCEPT ![t].built.model = @ + 1]
    /\ Goto(t, "ens_dimension")
    /\ UNCHANGED <<disk, result, call, pre, ncalls, nfaults, chunker, improved>>

\* line 95: self.embedding_dimension = self.model.get_sentence_embedding_dimension()
EnsDimension(t) ==
    /\ At(t, "ens_dimension")
    /\ rag' = [rag EXCEPT !.embedding_dimension = EmbeddingDimension(rag.model)]
    /\ Goto(t, "ens_index")
    /\ UNCHANGED <<disk, result, call, pre, ncalls, nfaults, local, chunker, improved>>

\* lines 97-99: if self.index is None: self.index = faiss.IndexFlatL2(...)
EnsIndex(t) ==
    /\ At(t, "ens_index")
    /\ rag' = [rag EXCEPT !.index = IF rag.index.none THEN IndexFlatL2(<< >>) ELSE @]
    /\ Goto(t, "ens_reranker_check")
    /\ UNCHANGED <<disk, result, call, pre, ncalls, nfaults, local, chunker, improved>>

\* line 102: if self.use_reranker and self.reranker is None
EnsRerankerCheck(t) ==
    /\ At(t, "ens_reranker_check")
    /\ Goto(t, IF NeedsReranker(rag) THEN "ens_reranker_load" ELSE local[t].ret)
    /\ UNCHANGED <<rag, disk, result, call, pre, ncalls, nfaults, local, chunker, improved>>

\* line 105: self.reranker = CrossEncoder(self.reranker_model)
EnsRerankerLoad(t) ==
    /\ At(t, "ens_reranker_load")
    /\ rag' = [rag EXCEPT !.reranker = "loaded"]
    /\ local' = [local EXCEPT ![t].built.reranker = @ + 1]
    /\ Goto(t, local[t].ret)
    /\ UNCHANGED <<disk, result, call, pre, ncalls, nfaults, chunker, improved>>

\* ---- save_index, lines 479-500 ----
\* lines 482-485: faiss.write_index(self.index, ...), when there is an index
SaveWriteIndex(t) ==
    /\ At(t, "save_write_index")
    /\ disk' = save_index(rag, disk, "open_data")
    /\ Goto(t, "save_dump")
    /\ UNCHANGED <<rag, result, call, pre, ncalls, nfaults, local, chunker, improved>>

\* lines 488-497: pickle.dump of the fields, then the return of the caller
\* (line 169 of add_text_document, line 404 of delete_document)
SaveDump(t) ==
    /\ At(t, "save_dump")
    /\ disk' = [disk EXCEPT !.data = save_index(rag, disk, OK).data]
    /\ Return(t, IF local[t].op = "add_text_document"
                 THEN AddedMsg(local[t].doc_id, local[t].added,
                               Len(TextChunks[local[t].text]))
                 ELSE DeleteMsg("deleted", local[t].doc_id, local[t].found))
    /\ UNCHANGED <<rag, pre, ncalls, nfaults, local, chunker, improved>>

\* ---- add_text_document, lines 108-176 ----
ConcTexts == {"one", "three"}

BeginAdd(t) ==
    /\ At(t, "idle")
    /\ \E text \in ConcTexts, doc_id \in DocIds :
        Begin(t, [IdleLocal EXCEPT !.op = "add_text_document", !.text = text,
                                   !.doc_id = doc_id, !.ret = "add_chunk"],
              "ens_model_check")

\* lines 128-130: the head of the loop, and the skip of a chunk that is too short
AddChunk(t) ==
    LET chunks == TextChunks[local[t].text]
        i == local[t].i
    IN  /\ At(t, "add_chunk")
        /\ IF i >= Len(chunks)
           THEN Goto(t, "save_write_index") /\ UNCHANGED local
           ELSE IF Len(Strip(chunks[i + 1])) < MinChunkLen
           THEN local' = [local EXCEPT ![t].i = i + 1] /\ UNCHANGED pc
           ELSE Goto(t, "add_index") /\ UNCHANGED local
        /\ UNCHANGED <<rag, disk, result, call, pre, ncalls, nfaults, chunker, improved>>

\* lines 133-142: encode, normalize, self.index.add(embedding). Without an
\* index the statement raises; line 157 catches it and the loop goes on.
AddIndex(t) ==
    LET chunk == TextChunks[local[t].text][local[t].i + 1]
    IN  /\ At(t, "add_index")
        /\ IF rag.index.none
           THEN /\ local' = [local EXCEPT ![t].i = @ + 1]
                /\ Goto(t, "add_chunk")
                /\ UNCHANGED rag
           ELSE /\ rag' = [rag EXCEPT !.index =
                              IndexFlatL2(Append(@.vecs, Embedding(rag.model, chunk)))]
                /\ Goto(t, "add_documents")
                /\ UNCHANGED local
        /\ UNCHANGED <<disk, result, call, pre, ncalls, nfaults, chunker, improved>>

\* line 152: self.documents.append(chunk)
AddDocuments(t) ==
    /\ At(t, "add_documents")
    /\ rag' = [rag EXCEPT !.documents =
                  Append(@, TextChunks[local[t].text][local[t].i + 1])]
    /\ Goto(t, "add_metadata")
    /\ UNCHANGED <<disk, result, call, pre, ncalls, nfaults, local, chunker, improved>>

\* lines 145-154: chunk_metadata, self.metadata.append(chunk_metadata) and
\* added_chunks += 1
AddMetadata(t) ==
    /\ At(t, "add_metadata")
    /\ rag' = [rag EXCEPT !.metadata =
                  Append(@, ChunkMetadata(MetaOf(local[t].doc_id), local[t].doc_id,
                                          local[t].i))]
    /\ local' = [local EXCEPT ![t].i = @ + 1, ![t].added = @ + 1]
    /\ Goto(t, "add_chunk")
    /\ UNCHANGED <<disk, result, call, pre, ncalls, nfaults, chunker, improved>>

\* ---- delete_document and _rebuild_index, lines 381-430 ----
BeginDelete(t) ==
    /\ At(t, "idle")
    /\ \E doc_id \in DocIds :
        Begin(t, [IdleLocal EXCEPT !.op = "delete_document", !.doc_id = doc_id,
                                   !.ret = "rebuild_new"],
              "delete_find")

\* the positions (1-based) in s, in descending order
RECURSIVE Descending(_)
Descending(s) ==
    IF s = {} THEN << >>
    ELSE LET m == CHOOSE a \in s : \A b \in s : b <= a
         IN  <<m>> \o Descending(s \ {m})

\* lines 385-391: the scan of self.metadata, and the return when nothing is found
DeleteFind(t) ==
    LET found == IndicesToRemove(rag, local[t].doc_id)
    IN  /\ At(t, "delete_find")
        /\ IF found = {}
           THEN /\ Return(t, DeleteMsg("not_found", local[t].doc_id, 0))
                /\ UNCHANGED local
           ELSE /\ local' = [local EXCEPT ![t].todo = Descending(found),
                                          ![t].found = Cardinality(found)]
                /\ Goto(t, "delete_documents")
                /\ UNCHANGED <<result, call>>
        /\ UNCHANGED <<rag, disk, pre, ncalls, nfaults, chunker, improved>>

\* line 395: del self.documents[i]; an IndexError ends the call at line 406
DeleteDocuments(t) ==
    LET i == Head(local[t].todo)
    IN  /\ At(t, "delete_documents")
        /\ IF i > Len(rag.documents)
           THEN /\ Return(t, DeleteMsg("error", local[t].doc_id, 0))
                /\ UNCHANGED rag
           ELSE /\ rag' = [rag EXCEPT !.documents = Without(@, {i})]
                /\ Goto(t, "delete_metadata")
                /\ UNCHANGED <<result, call>>
        /\ UNCHANGED <<disk, pre, ncalls, nfaults, local, chunker, improved>>

\* line 396: del self.metadata[i], and the head of the loop at line 394
DeleteMetadata(t) ==
    LET i == Head(local[t].todo)
        rest == Tail(local[t].todo)
    IN  /\ At(t, "delete_metadata")
        /\ IF i > Len(rag.metadata)
           THEN /\ Return(t, DeleteMsg("error", local[t].doc_id, 0))
                /\ UNCHANGED <<rag, local>>
           ELSE /\ rag' = [rag EXCEPT !.metadata = Without(@, {i})]
                /\ local' = [local EXCEPT ![t].todo = rest]
                /\ Goto(t, IF rest = << >> THEN "rebuild_check" ELSE "delete_documents")
                /\ UNCHANGED <<result, call>>
        /\ UNCHANGED <<disk, pre, ncalls, nfaults, chunker, improved>>

\* line 411: if not self.documents
RebuildCheck(t) ==
    /\ At(t, "rebuild_check")
    /\ local' = [local EXCEPT ![t].empty = (rag.documents = << >>)]
    /\ Goto(t, "ens_model_check")
    /\ UNCHANGED <<rag, disk, result, call, pre, ncalls, nfaults, chunker, improved>>

\* lines 414-415 and 422-423: self.index = faiss.IndexFlatL2(self.embedding_dimension),
\* which raises on a dimension that is still None
RebuildNew(t) ==
    /\ At(t, "rebuild_new")
    /\ IF rag.embedding_dimension = NoDimension
       THEN /\ Return(t, DeleteMsg("error", local[t].doc_id, 0))
            /\ UNCHANGED rag
       ELSE /\ rag' = [rag EXCEPT !.index = IndexFlatL2(<< >>)]
            /\ Goto(t, IF local[t].empty THEN "save_write_index" ELSE "rebuild_encode")
            /\ UNCHANGED <<result, call>>
    /\ UNCHANGED <<disk, pre, ncalls, nfaults, local, chunker, improved>>

\* lines 426-428: embeddings = self.model.encode(self.documents), normalized
RebuildEncode(t) ==
    /\ At(t, "rebuild_encode")
    /\ local' = [local EXCEPT ![t].embeddings = EmbedAll(rag.model, rag.documents)]
    /\ Goto(t, "rebuild_add")
    /\ UNCHANGED <<rag, disk, result, call, pre, ncalls, nfaults, chunker, improved>>

\* line 430: self.index.add(embeddings), on the index self.index is then
RebuildAdd(t) ==
    /\ At(t, "rebuild_add")
    /\ rag' = [rag EXCEPT !.index = IndexFlatL2(@.vecs \o local[t].embeddings)]
    /\ Goto(t, "save_write_index")
    /\ UNCHANGED <<disk, result, call, pre, ncalls, nfaults, local, chunker, improved>>

\* ---- search, lines 221-314 ----
BeginSearch(t) ==
    /\ At(t, "idle")
    /\ \E query \in Queries, n_results \in 1..MaxResults :
        Begin(t, [IdleLocal EXCEPT !.op = "search", !.query = query,
                                   !.n_results = n_results, !.ret = "search_k"],
              "search_check")

\* lines 233-234: if len(self.documents) == 0
SearchCheck(t) ==
    /\ At(t, "search_check")
    /\ IF Len(rag.documents) = 0
       THEN Return(t, [op |-> "search", list |-> ErrorList("No documents in the system")])
       ELSE Goto(t, "ens_model_check") /\ UNCHANGED <<result, call>>
    /\ UNCHANGED <<rag, disk, pre, ncalls, nfaults, local, chunker, improved>>

\* lines 240-244: should_rerank and initial_k
SearchK(t) ==
    /\ At(t, "search_k")
    /\ local' = [local EXCEPT ![t].k =
                    InitialK(rag, local[t].n_results,
                             ShouldRerank(rag, local[t].use_reranker))]
    /\ Goto(t, "search_index")
    /\ UNCHANGED <<rag, disk, result, call, pre, ncalls, nfaults, chunker, improved>>

\* lines 247-252: the query embedding and self.index.search(..., initial_k),
\* which raises without an index or with initial_k = 0
SearchIndex(t) ==
    /\ At(t, "search_index")
    /\ IF rag.index.none \/ local[t].k = 0
       THEN /\ Return(t, [op |-> "search", list |-> ErrorList("Search failed")])
            /\ UNCHANGED local
       ELSE /\ local' = [local EXCEPT
                           ![t].hits = IndexSearch(rag.index,
                                                   Embedding(rag.model, local[t].query),
                                                   local[t].k),
                           ![t].seen.ntotal = ntotal(rag.index)]
            /\ Goto(t, "search_collect")
            /\ UNCHANGED <<result, call>>
    /\ UNCHANGED <<rag, disk, pre, ncalls, nfaults, chunker, improved>>

\* lines 255-311: the candidates read from self.documents and self.metadata,
\* the re-ranking and the return
SearchCollect(t) ==
    LET hits == local[t].hits
        cands == Candidates(rag, hits)
        rerank == /\ ShouldRerank(rag, local[t].use_reranker)
                  /\ rag.reranker # None
                  /\ cands # << >>
    IN  /\ At(t, "search_collect")
        /\ local' = [local EXCEPT ![t].seen =
                        [done |-> TRUE, ntotal |-> @.ntotal,
                         documents |-> Len(rag.documents),
                         metadata |-> Len(rag.metadata)]]
        /\ IF CandidatesRaise(rag, hits)
           THEN Return(t, [op |-> "search", list |-> ErrorList("Search failed")])
           ELSE Return(t, [op |-> "search",
                           list |-> Ranked(cands, local[t].query,
                                           local[t].n_results, rerank)])
        /\ UNCHANGED <<rag, disk, pre, ncalls, nfaults, chunker, improved>>

ConcNext ==
    \E t \in Threads :
        \/ EnsModelCheck(t) \/ EnsModelLoad(t) \/ EnsDimension(t) \/ EnsIndex(t)
        \/ EnsRerankerCheck(t) \/ EnsRerankerLoad(t)
        \/ SaveWriteIndex(t) \/ SaveDump(t)
        \/ BeginAdd(t) \/ AddChunk(t) \/ AddIndex(t) \/ AddDocuments(t) \/ AddMetadata(t)
        \/ BeginDelete(t) \/ DeleteFind(t) \/ DeleteDocuments(t) \/ DeleteMetadata(t)
        \/ RebuildCheck(t) \/ RebuildNew(t) \/ RebuildEncode(t) \/ RebuildAdd(t)
        \/ BeginSearch(t) \/ SearchCheck(t) \/ SearchK(t) \/ SearchIndex(t)
        \/ SearchCollect(t)

SpecConc == Init /\ [][ConcNext]_vars

(***************************************************************************)
(* _chunk_text followed iteration by iteration (specification SpecChunk).   *)
(***************************************************************************)
\* bounds on the inputs of the followed call: the length of the text and
\* chunk_size
MaxTextLen == 4
MaxChunkSize == 3

RECURSIVE SeqsUpTo(_, _)
\* the sequences over the alphabet A of length at most n
SeqsUpTo(A, n) ==
    IF n = 0 THEN {<< >>}
    ELSE LET shorter == SeqsUpTo(A, n - 1)
         IN  shorter \cup {Append(s, c) : s \in shorter, c \in A}

\* texts made of a letter, the space and a sentence terminator
ChunkTexts == SeqsUpTo({"a", " ", "."}, MaxTextLen)

\* the rest of the engine does not take part
ChunkerFrame ==
    UNCHANGED <<rag, disk, result, call, pre, ncalls, nfaults, pc, local, improved>>

\* lines 444-448: the call, with 0 <= overlap < chunk_size; a text that fits
\* in one chunk is returned at once
ChunkTextCall ==
    /\ chunker.pc = "idle"
    /\ \E text \in ChunkTexts, size \in 1..MaxChunkSize :
       \E ov \in 0..(size - 1) :
          chunker' = [pc     |-> IF Len(text) <= size THEN "done" ELSE "loop",
                      text   |-> text, size |-> size, ov |-> ov,
                      start  |-> 0, prev |-> 0, iter |-> 0,
                      chunks |-> IF Len(text) <= size THEN <<text>> ELSE << >>]
    /\ ChunkerFrame

\* lines 450-475: one iteration of the while loop
ChunkIteration ==
    /\ chunker.pc = "loop"
    /\ chunker.start < Len(chunker.text)
    /\ chunker.iter < MaxChunkIter
    /\ LET text  == chunker.text
           end   == ExtendToSpace(text, SentenceCut(text, chunker.start, chunker.size))
           chunk == Strip(PySlice(text, chunker.start, end))
       IN  chunker' = [chunker EXCEPT
                          !.chunks = IF chunk # << >> THEN Append(@, chunk) ELSE @,
                          !.prev   = chunker.start,
                          !.start  = NextStart(text, end, chunker.ov),
                          !.iter   = @ + 1]
    /\ ChunkerFrame

\* lines 450 and 477: the loop condition fails and the chunks are returned
ChunkReturn ==
    /\ chunker.pc = "loop"
    /\ ~(chunker.start < Len(chunker.text))
    /\ chunker' = [chunker EXCEPT !.pc = "done"]
    /\ ChunkerFrame

ChunkNext == ChunkTextCall \/ ChunkIteration \/ ChunkReturn

SpecChunk == Init /\ [][ChunkNext]_vars

(***************************************************************************)
(* _smart_chunk_text followed sentence by sentence (specification           *)
(* SpecSmartChunk).                                                         *)
(***************************************************************************)
\* bound on the length of the text of the followed call
MaxSmartTextLen == 5

\* texts made of a letter, the space and two sentence terminators
SmartTexts == SeqsUpTo({"a", " ", ".", "?"}, MaxSmartTextLen)

\* lines 432-441: the call, with 0 <= overlap < chunk_size and
\* min_chunk_size <= chunk_size; a text that fits in one chunk is returned at
\* once
SmartChunkCall ==
    /\ chunker.pc = "idle"
    /\ \E text \in SmartTexts, size \in 1..MaxChunkSize :
       \E ov \in 0..(size - 1), min \in 0..size :
          chunker' = [pc        |-> IF Len(text) <= size THEN "done" ELSE "sentences",
                      text      |-> text, size |-> size, ov |-> ov, min |-> min,
                      sentences |-> IF Len(text) <= size THEN << >> ELSE Sentences(text),
                      i         |-> 1,
                      st        |-> SmartStart,
                      chunks    |-> IF Len(text) <= size THEN SmartWhole(text, min)
                                    ELSE << >>]
    /\ ChunkerFrame

\* lines 443-470: one iteration of the loop over the sentences
SmartChunkSentence ==
    /\ chunker.pc = "sentences"
    /\ chunker.i <= Len(chunker.sentences)
    /\ chunker' = [chunker EXCEPT
                      !.st = SmartStep(@, chunker.sentences[chunker.i], chunker.size,
                                       chunker.ov, chunker.min),
                      !.i  = @ + 1]
    /\ ChunkerFrame

\* lines 472-477: the rest of the buffer, and the return
SmartChunkReturn ==
    /\ chunker.pc = "sentences"
    /\ chunker.i > Len(chunker.sentences)
    /\ chunker' = [chunker EXCEPT
                      !.pc = "done",
                      !.chunks = Emit(chunker.st.chunks, chunker.st.current_chunk,
                                      chunker.min)]
    /\ ChunkerFrame

SmartChunkNext == SmartChunkCall \/ SmartChunkSentence \/ SmartChunkReturn

SpecSmartChunk == Init /\ [][SmartChunkNext]_vars

(***************************************************************************)
(* PDF files added to the engine.                                           *)
(***************************************************************************)
\* pages of a file
MaxPages == 2

\* the pages a file is made of: a page of body text, a page headed Abstract,
\* a page with the Thai heading of a table of contents, a page headed
\* References, and a page that mentions both an abstract and references
PageKinds == {"plain", "abstract", "contents", "references", "both"}

\* the text extract_text() returns for page i of a file
PageTextOf(kind, i) ==
    (CASE kind = "plain"      -> <<"P", "a", "g", "e">>
       [] kind = "abstract"   -> <<"A", "b", "s", "t", "r", "a", "c", "t">>
       [] kind = "contents"   -> <<"0E2A", "0E32", "0E23", "0E1A", "0E31", "0E0D">>
       [] kind = "references" -> <<"R", "e", "f", "e", "r", "e", "n", "c", "e", "s">>
       [] kind = "both"       -> <<"A", "b", "s", "t", "r", "a", "c", "t", ",", " ",
                                   "r", "e", "f", "e", "r", "e", "n", "c", "e", "s">>)
        \o <<" ">> \o Digits(i) \o <<" ", "t", "e", "x", "t", ".">>

\* the file paper.pdf with the given pages
PdfFile(kinds) ==
    [path  |-> "paper.pdf",
     stem  |-> "d2",
     pages |-> [i \in 1..Len(kinds) |-> PageTextOf(kinds[i], i)]]

PdfFiles == {PdfFile(kinds) : kinds \in SeqsUpTo(PageKinds, MaxPages) \ {<< >>}}

\* whether PyPDF2 is there and the file can be read
ReadOutcomes == {OK, FAIL, "not_installed"}

AddPdfDocument ==
    /\ ncalls < MaxCalls
    /\ \E pdf \in PdfFiles, doc_id \in {None, "d1"} :
       \E read \in {o \in ReadOutcomes : o = OK \/ nfaults < MaxFaults} :
       LET chunks == _chunk_text(ExtractText(pdf.pages, 1, << >>), chunk_size, overlap)
           reads == IF read = OK THEN 0 ELSE 1
       IN
       \E l \in IF read = OK THEN Loads(rag) ELSE {[modelLoad |-> OK, rerankerLoad |-> OK]} :
       \E failed \in {f \in SUBSET Usable(chunks) :
                         /\ (read # OK \/ ~LoadsDone(l)) => f = {}
                         /\ nfaults + Cardinality(f) <= MaxFaults} :
       \E save \in IF read = OK /\ LoadsDone(l)
                   THEN {o \in SaveOutcomes :
                            o = OK \/ nfaults + Cardinality(failed) < MaxFaults}
                   ELSE {OK} :
          LET env == [read |-> read,
                      modelLoad |-> l.modelLoad, rerankerLoad |-> l.rerankerLoad,
                      chunk |-> [i \in 0..(Len(chunks) - 1) |->
                                    IF i \in failed THEN FAIL ELSE OK],
                      save |-> save]
          IN  \E out \in {add_pdf_document(rag, disk, pdf, doc_id, EmptyMeta, env)} :
              /\ rag' = out.rag
              /\ disk' = out.disk
              /\ result' = out.result
              /\ call' = [op |-> "add_pdf_document", pages |-> pdf.pages,
                          doc_id |-> doc_id, read |-> read, text |-> out.text,
                          modelLoad |-> Attempt(read = OK, ModelLoadOf(rag, l)),
                          rerankerLoad |-> Attempt(read = OK, RerankerLoadOf(rag, l)),
                          failed |-> failed,
                          save |-> Attempt(read = OK /\ LoadsDone(l), save)]
              /\ nfaults' = nfaults + reads + LoadFaults(l) + Cardinality(failed)
                                + Failed(save)
    /\ pre' = Store(rag)
    /\ ncalls' = ncalls + 1
    /\ UNCHANGED <<pc, local, chunker, improved>>

PdfNext == Restart \/ AddPdfDocument

SpecPdf == Init /\ [][PdfNext]_vars

(***************************************************************************)
(* Calls on an ImprovedRAGSystem (specification SpecImproved).              *)
(***************************************************************************)
\* calls made on the object
MaxImprovedCalls == 3

\* Construction with the default arguments, on an empty data directory or on
\* one that holds a snapshot
ImprovedInit ==
    /\ improved \in {ImprovedOn(TRUE, TRUE, EmptyImprovedDir),
                     ImprovedOn(TRUE, TRUE, SavedImprovedDir)}
    /\ disk = EmptyDir
    /\ rag = Construct(DefaultModel, TRUE, disk)
    /\ result = NoResult
    /\ call = [op |-> "construct", use_reranker |-> TRUE, cache_embeddings |-> TRUE]
    /\ pre = Store(NewEngine(DefaultModel, TRUE))
    /\ ncalls = 0
    /\ nfaults = 0
    /\ pc = [t \in Threads |-> "idle"]
    /\ local = [t \in Threads |-> IdleLocal]
    /\ chunker = NoChunker

\* the SimpleRAGSystem and the followed calls do not take part
ImprovedFrame == UNCHANGED <<rag, disk, pc, local, chunker>>

\* A new ImprovedRAGSystem is constructed on the data directory
ImprovedRestart ==
    /\ ncalls < MaxImprovedCalls
    /\ \E use_reranker \in BOOLEAN, cache_embeddings \in BOOLEAN :
          /\ improved' = ImprovedOn(use_reranker, cache_embeddings, improved.dir)
          /\ call' = [op |-> "construct", use_reranker |-> use_reranker,
                      cache_embeddings |-> cache_embeddings]
    /\ result' = NoResult
    /\ pre' = Store(improved)
    /\ ncalls' = ncalls + 1
    /\ UNCHANGED nfaults
    /\ ImprovedFrame

\* the loads a call to _ensure_models_loaded makes in the state r
ImprovedLoads(r) ==
    {l \in [modelLoad : Outcomes(r.model = None, 0),
            rerankerLoad : Outcomes(r.use_reranker /\ r.reranker = None, 0)] :
        l.modelLoad = FAIL => l.rerankerLoad = OK}

ImprovedAddTextDocument ==
    /\ ncalls < MaxImprovedCalls
    /\ \E t \in ImprovedTextNames, doc_id \in DocIds, l \in ImprovedLoads(improved) :
       LET loaded == l.modelLoad = OK
           encodes == loaded /\ ImprovedChunks[t] # << >>
       IN
       \E enc \in Outcomes(encodes, LoadFaults(l)) :
       \E add \in Outcomes(encodes /\ enc = OK, LoadFaults(l)) :
       \E save \in IF encodes /\ enc = OK /\ add = OK /\ nfaults + LoadFaults(l) < MaxFaults
                   THEN SaveOutcomes ELSE {OK} :
          LET env == [modelLoad |-> l.modelLoad, rerankerLoad |-> l.rerankerLoad,
                      encode |-> enc, add |-> add, save |-> save]
          IN  \E out \in {Improved_add_text_document(improved, t, doc_id,
                                                      MetaOf(doc_id), env)} :
              /\ improved' = out.rag
              /\ result' = out.result
              /\ call' = [op |-> "add_text_document", text |-> t, doc_id |-> doc_id,
                          modelLoad |-> l.modelLoad, rerankerLoad |-> l.rerankerLoad,
                          encode |-> Attempt(encodes, enc),
                          add |-> Attempt(encodes /\ enc = OK, add),
                          save |-> Attempt(encodes /\ enc = OK /\ add = OK, save)]
              /\ nfaults' = nfaults + LoadFaults(l) + Failed(enc) + Failed(add)
                                + Failed(save)
    /\ pre' = Store(improved)
    /\ ncalls' = ncalls + 1
    /\ ImprovedFrame

\* the use_reranker argument is left out: search does not read it
ImprovedSearch ==
    /\ ncalls < MaxImprovedCalls
    /\ \E query \in Queries, n_results \in 1..MaxResults :
       LET nonempty == improved.documents # << >> IN
       \E l \in IF nonempty THEN ImprovedLoads(improved)
                ELSE {[modelLoad |-> OK, rerankerLoad |-> OK]} :
          LET r1 == _ensure_models_loaded(improved, l.modelLoad, l.rerankerLoad).rag
              computes == /\ nonempty /\ l.modelLoad = OK
                          /\ ~(r1.cache_embeddings
                                /\ CacheKey(query, n_results) \in DOMAIN r1.embedding_cache)
              reranks == /\ computes /\ ~r1.index.none
                         /\ ImprovedReranks(r1, ImprovedCandidates(r1, query, n_results))
          IN
          \E enc \in Outcomes(computes, LoadFaults(l)) :
          \E predict \in Outcomes(reranks /\ enc = OK, LoadFaults(l)) :
             LET env == [modelLoad |-> l.modelLoad, rerankerLoad |-> l.rerankerLoad,
                         encode |-> enc, predict |-> predict]
             IN  \E out \in {Improved_search(improved, query, n_results, env)} :
                 /\ improved' = out.rag
                 /\ result' = [op |-> "search", list |-> out.result]
                 /\ call' = [op |-> "search", query |-> query, n_results |-> n_results,
                             cached |-> out.cached,
                             modelLoad |-> l.modelLoad, rerankerLoad |-> l.rerankerLoad,
                             encode |-> Attempt(computes, enc),
                             predict |-> Attempt(reranks /\ enc = OK, predict)]
                 /\ nfaults' = nfaults + LoadFaults(l) + Failed(enc) + Failed(predict)
    /\ pre' = Store(improved)
    /\ ncalls' = ncalls + 1
    /\ ImprovedFrame

ImprovedNext == ImprovedRestart \/ ImprovedAddTextDocument \/ ImprovedSearch

SpecImproved == ImprovedInit /\ [][ImprovedNext]_vars

(***************************************************************************)
(* Properties of the sequential engine (specification Spec).                *)
(***************************************************************************)
LastCallIs(op) == call.op = op

\* the index holds as many vectors as there are documents and metadata entries
InStep(r) == ntotal(r.index) = Len(r.documents) /\ Len(r.documents) = Len(r.metadata)

\* the vectors, documents and metadata are those the last call started with
StoreUnchanged ==
    /\ rag.index.vecs = pre.index.vecs
    /\ rag.documents = pre.documents
    /\ rag.metadata = pre.metadata

\* C1: after every add_text_document and every delete_document call, also one
\* in which a load, an encode, an insertion or the rebuild failed, the index
\* holds exactly len(documents) = len(metadata) vectors.
C1_LengthsAgreeAfterEachCall ==
    (LastCallIs("add_text_document") \/ LastCallIs("delete_document")) => InStep(rag)

\* metadata entry m describes the chunk text: it is chunk number m.chunk_index
\* of one of the texts
Describes(m, text) ==
    \E t \in TextNames :
        /\ m.chunk_index < Len(TextChunks[t])
        /\ TextChunks[t][m.chunk_index + 1] = text

\* position i of the index holds the normalized embedding of documents[i], and
\* metadata[i] describes documents[i]
Aligned(r) ==
    /\ InStep(r)
    /\ \A i \in 1..Len(r.documents) :
          /\ r.index.vecs[i] = Embedding(r.embedding_model, r.documents[i])
          /\ Describes(r.metadata[i], r.documents[i])

\* C2: in every state reached by construction (on an empty directory or on a
\* saved snapshot) and add_text_document / delete_document calls in which
\* nothing fails, the vector at position i is the normalized embedding of
\* documents[i] and metadata[i] describes that chunk.
C2_VectorsMatchDocuments ==
    (nfaults = 0 /\ ~LastCallIs("search")) => Aligned(rag)

\* the engine was just constructed on a snapshot saved under another model name
ConstructedOnForeignSnapshot ==
    /\ LastCallIs("construct")
    /\ disk.data.state = "ok"
    /\ disk.data.embedding_model # call.embedding_model

\* C3: an engine constructed on a snapshot whose saved embedding-model name
\* differs from the configured one holds none of the snapshot's chunk texts or
\* metadata (and so get_stats and list_documents count nothing).
C3_ForeignSnapshotInvalidated ==
    ConstructedOnForeignSnapshot =>
        /\ rag.documents = << >>
        /\ rag.metadata = << >>
        /\ get_stats(rag).total_chunks = 0
        /\ list_documents(rag) = << >>

\* C4: if processing a chunk fails during add_text_document, the call commits
\* none of the document's chunks and its result reports a failure.
C4_ChunkFailureCommitsNothing ==
    (LastCallIs("add_text_document") /\ call.failed # {}) =>
        StoreUnchanged /\ result.kind = "error"

\* the index rebuild inside the last delete_document call failed
RebuildFailed ==
    /\ LastCallIs("delete_document")
    /\ FAIL \in {call.modelLoad, call.rerankerLoad, call.encode}

\* C5: if the rebuild fails inside delete_document, the call returns an error
\* message and documents, metadata and the index are as before the call.
C5_FailedRebuildLeavesStore ==
    RebuildFailed => (result.kind = "error" /\ StoreUnchanged)

\* the last call was add_text_document on a text without a usable chunk, and
\* both models were available
AddedUnusableText ==
    /\ LastCallIs("add_text_document")
    /\ Usable(TextChunks[call.text]) = {}
    /\ FAIL \notin {call.modelLoad, call.rerankerLoad}

\* C6: add_text_document on a text all of whose chunks are below the minimum
\* usable length returns a failure result and leaves the store unchanged.
C6_UnusableTextIsReported ==
    AddedUnusableText => (result.kind = "error" /\ StoreUnchanged)

\* C7: search on an engine that holds no chunks returns the empty sequence:
\* no result entry and no error entry.
C7_SearchOnEmptyStoreIsEmpty ==
    (LastCallIs("search") /\ pre.documents = << >>) => result.list = << >>

\* the entries are in ascending order of embedding distance
InDistanceOrder(list) ==
    \A i \in 1..(Len(list) - 1) : list[i].initial_score <= list[i + 1].initial_score

\* the last call tried to load the reranker and could not
RerankerLoadFailed ==
    /\ call.op \in {"add_text_document", "delete_document", "search"}
    /\ call.rerankerLoad = FAIL

\* C8: if the reranker cannot be loaded, search on a non-empty store still
\* succeeds and returns results in embedding-distance order, and reranking is
\* disabled from then on, so that no later call tries the load again.
C8_SearchSurvivesRerankerFailure ==
    /\ (LastCallIs("search") /\ RerankerLoadFailed /\ pre.documents # << >>) =>
           /\ \A i \in 1..Len(result.list) : ~IsErrorEntry(result.list[i])
           /\ InDistanceOrder(result.list)
    /\ RerankerLoadFailed => ~NeedsReranker(rag)

(***************************************************************************)
(* Properties of concurrent calls (specification SpecConc).                 *)
(***************************************************************************)
\* what thread t's search read: the vector count of the index it searched and
\* the lengths of the two lists it took the candidates from
Observed(t) == local[t].seen

\* C9: a search that runs while another thread adds or deletes never observes
\* an index whose vector count differs from len(documents) or len(metadata)
C9_ReaderObservesStoreInStep ==
    \A t \in Threads :
        Observed(t).done =>
            /\ Observed(t).ntotal = Observed(t).documents
            /\ Observed(t).documents = Observed(t).metadata

\* the number of times the threads constructed each model
RECURSIVE Built(_, _)
Built(kind, ts) ==
    IF ts = {} THEN 0
    ELSE LET t == CHOOSE u \in ts : TRUE
         IN  local[t].built[kind] + Built(kind, ts \ {t})

\* C10: with concurrent calls that need the models, the embedding model and
\* the re-ranker are each constructed at most once
C10_ModelsConstructedOnce ==
    /\ Built("model", Threads) <= 1
    /\ Built("reranker", Threads) <= 1

(***************************************************************************)
(* Properties of the snapshot on disk (specification Spec).                 *)
(***************************************************************************)
\* the two files hold an index and a chunk list of equal length
SnapshotInStep(d) ==
    /\ d.data.state # "corrupt"
    /\ Len(d.index.vecs) = Len(d.data.documents)
    /\ Len(d.data.documents) = Len(d.data.metadata)

\* save_index of the last call stopped between or during its two writes
SaveInterrupted ==
    /\ call.op \in {"add_text_document", "delete_document"}
    /\ call.save \in {"open_data", "dump_data"}

\* C11: when save_index stops between or during its two writes, the files on
\* disk still hold an index and a chunk list of equal length.
C11_SnapshotWrittenAtomically ==
    SaveInterrupted => SnapshotInStep(disk)

\* the engine was just constructed, under the model name the snapshot was
\* saved with, on a snapshot whose index file and chunk lists differ in length
ConstructedOnUnevenSnapshot ==
    /\ LastCallIs("construct")
    /\ disk.data.state = "ok"
    /\ disk.data.embedding_model = call.embedding_model
    /\ disk.index.exists
    /\ ~SnapshotInStep(disk)

\* C12: load_index rejects a snapshot whose index file holds a number of
\* vectors different from the number of saved chunk texts or metadata
\* entries: the engine does not come up holding it.
C12_UnevenSnapshotRejected ==
    ConstructedOnUnevenSnapshot => InStep(rag)

\* a write of save_index failed in the last call
SaveFailed ==
    /\ call.op \in {"add_text_document", "delete_document"}
    /\ call.save \in (SaveOutcomes \ {OK})

\* C13: if save_index fails during add_text_document or delete_document, the
\* returned result reports the failure, and the index, documents and metadata
\* in memory keep equal lengths.
C13_SaveFailureIsReported ==
    SaveFailed => (result.kind = "error" /\ InStep(rag))

(***************************************************************************)
(* Properties of _chunk_text (specification SpecChunk).                     *)
(***************************************************************************)
\* C14: for 0 <= overlap < chunk_size, on every text, the window start of
\* _chunk_text is strictly greater after each loop iteration than before it
\* (so the loop ends).
C14_ChunkStartAdvances ==
    (chunker.pc = "loop" /\ chunker.iter > 0) => chunker.start > chunker.prev

(***************************************************************************)
(* Properties of search results (specification Spec).                      *)
(***************************************************************************)
\* the last call was a search on a non-empty store whose index was in step
\* with it, and nothing failed in the environment
SearchServed ==
    /\ LastCallIs("search")
    /\ pre.documents # << >>
    /\ InStep(pre)
    /\ FAIL \notin {call.modelLoad, call.rerankerLoad, call.encode, call.predict}

\* the positions of the k stored vectors nearest to the query, the earlier
\* position first among equal distances
Nearest(r, query, k) ==
    LET q == Embedding(r.embedding_model, query)
        Closer(a, b) ==
            \/ L2(r.index.vecs[a], q) < L2(r.index.vecs[b], q)
            \/ L2(r.index.vecs[a], q) = L2(r.index.vecs[b], q) /\ a < b
    IN  {i \in 1..ntotal(r.index) :
            Cardinality({j \in 1..ntotal(r.index) : Closer(j, i)}) < k}

\* the last search was served with reranking enabled and a loaded reranker
RerankedSearch ==
    /\ SearchServed
    /\ ShouldRerank(rag, call.use_reranker)
    /\ rag.reranker # None

\* list is a choice of min(n, |pool|) chunks of the pool with the highest
\* reranker scores, in descending order of that score
TopByRerank(list, pool, query, n) ==
    /\ Len(list) = Min(n, Cardinality(pool))
    /\ \A j \in 1..(Len(list) - 1) : list[j].score >= list[j + 1].score
    /\ \E f \in [1..Len(list) -> pool] :
          /\ \A i, j \in 1..Len(list) : f[i] = f[j] => i = j
          /\ \A j \in 1..Len(list) :
                /\ list[j].content = rag.documents[f[j]]
                /\ list[j].metadata = rag.metadata[f[j]]
                /\ list[j].score = RerankScore(query, rag.documents[f[j]])
          /\ \A i \in pool :
                (\A j \in 1..Len(list) : f[j] # i) =>
                    \A j \in 1..Len(list) :
                        RerankScore(query, rag.documents[i]) <= list[j].score

\* C15: with reranking enabled and a loaded reranker, search takes the
\* min(3 * n_results, stored chunks) nearest candidates and returns the
\* n_results of them with the highest reranker scores, in descending order of
\* reranker score.
C15_RerankedResultsAreTopOfPool ==
    RerankedSearch =>
        TopByRerank(result.list,
                    Nearest(rag, call.query,
                            Min(3 * call.n_results, Len(rag.documents))),
                    call.query, call.n_results)

\* a reranked search whose results are not in distance order
C15_RerankChangesOrder ==
    /\ RerankedSearch
    /\ Len(result.list) >= 2
    /\ ~InDistanceOrder(result.list)

\* C16: on a non-empty store in step with its index, search returns exactly
\* min(n_results, stored chunks) results, ranked 1, 2, ... in list order,
\* with or without reranking.
C16_ResultCountAndRanks ==
    SearchServed =>
        /\ Len(result.list) = Min(call.n_results, Len(rag.documents))
        /\ \A j \in 1..Len(result.list) :
              ~IsErrorEntry(result.list[j]) /\ result.list[j].rank = j

\* a search without reranking that had to cut the candidates to n_results
C16_CutSearchServed ==
    /\ SearchServed
    /\ ~ShouldRerank(rag, call.use_reranker)
    /\ call.n_results < Len(rag.documents)
    /\ Len(result.list) = call.n_results

(***************************************************************************)
(* Properties of delete_document (specification Spec).                     *)
(***************************************************************************)
\* the last call was a delete_document that returned the success message
Deleted == LastCallIs("delete_document") /\ result.kind = "deleted"

\* the positions of the store before the call whose chunk is not of doc_id
KeptPositions(doc_id) ==
    {i \in 1..Len(pre.metadata) : pre.metadata[i].doc_id # doc_id}

\* the number of chunks of document d in the metadata list m
ChunkCount(m, d) == Cardinality({i \in 1..Len(m) : m[i].doc_id = d})

\* C17: after a successful delete_document(X) no stored chunk has doc_id X,
\* the chunks of the other documents are stored with unchanged text and
\* metadata in the same relative order, list_documents reports every
\* remaining document with its unchanged chunk count, and the index holds as
\* many vectors as there are remaining chunks.
C17_DeleteRemovesOnlyTheDocument ==
    Deleted =>
        LET kept == KeptPositions(call.doc_id)
            listed == list_documents(rag)
        IN  /\ \A i \in 1..Len(rag.metadata) : rag.metadata[i].doc_id # call.doc_id
            /\ Len(rag.documents) = Cardinality(kept)
            /\ Len(rag.metadata) = Cardinality(kept)
            /\ \E g \in [1..Cardinality(kept) -> kept] :
                  /\ \A i, j \in 1..Cardinality(kept) : i < j => g[i] < g[j]
                  /\ \A j \in 1..Cardinality(kept) :
                        /\ rag.documents[j] = pre.documents[g[j]]
                        /\ rag.metadata[j] = pre.metadata[g[j]]
            /\ \A k \in 1..Len(listed) :
                  /\ listed[k].doc_id # call.doc_id
                  /\ listed[k].chunks = ChunkCount(pre.metadata, listed[k].doc_id)
            /\ {listed[k].doc_id : k \in 1..Len(listed)} =
                  {pre.metadata[i].doc_id : i \in kept}
            /\ ntotal(rag.index) = Cardinality(kept)

\* a successful delete_document that left the chunks of another document
C17_DeletedBesideAnotherDocument ==
    /\ Deleted
    /\ rag.documents # << >>
    /\ Len(rag.documents) < Len(pre.documents)

\* C18: delete_document(X) on an engine in which no stored chunk has doc_id X
\* returns the "not found" message and changes neither the object (no
\* rebuild) nor the snapshot on disk (no save).
C18_NotFoundChangesNothing ==
    [][(/\ ncalls' = ncalls + 1
        /\ call'.op = "delete_document"
        /\ \A i \in 1..Len(rag.metadata) : rag.metadata[i].doc_id # call'.doc_id)
       => (result'.kind = "not_found" /\ rag' = rag /\ disk' = disk)]_vars

\* a delete_document of an unknown document on a non-empty store
C18_UnknownDocumentDeleted ==
    /\ LastCallIs("delete_document")
    /\ result.kind = "not_found"
    /\ rag.documents # << >>

(***************************************************************************)
(* Properties of get_context_for_query (specification SpecContext).        *)
(***************************************************************************)
\* the inner search of the last get_context_for_query call returned results
ContextFromResults ==
    /\ LastCallIs("get_context_for_query")
    /\ call.results # << >>
    /\ \A j \in 1..Len(call.results) : ~IsErrorEntry(call.results[j])

\* the summed lengths of the pieces of the m top-ranked results
RECURSIVE PiecesLength(_)
PiecesLength(m) ==
    IF m = 0 THEN 0 ELSE PiecesLength(m - 1) + Len(ContextPiece(call.results[m]))

\* the whole pieces of the m top-ranked results, in rank order, separated
RECURSIVE WholePieces(_)
WholePieces(m) ==
    IF m = 1 THEN ContextPiece(call.results[1])
    ELSE WholePieces(m - 1) \o ContextSeparator \o ContextPiece(call.results[m])

\* the number of pieces of the returned context: the largest m such that the
\* m top-ranked pieces together are no longer than max_context_length
FittingPieces ==
    CHOOSE m \in 0..Len(call.results) :
        /\ PiecesLength(m) <= call.max_context_length
        /\ m < Len(call.results) => PiecesLength(m + 1) > call.max_context_length

\* C19: get_context_for_query includes whole pieces only, in rank order from
\* rank 1, and stops at the first piece with which the summed piece lengths
\* would exceed max_context_length.
C19_ContextIsWholePiecesInRankOrder ==
    ContextFromResults =>
        /\ \A j \in 1..Len(call.results) : call.results[j].rank = j
        /\ PiecesLength(FittingPieces) <= call.max_context_length
        /\ result.text = IF FittingPieces = 0 THEN NoContextFound
                         ELSE ContextHeader \o WholePieces(FittingPieces)

\* a context of one piece, cut before a second piece that does not fit
C19_ContextCutAfterFirstPiece ==
    /\ ContextFromResults
    /\ Len(call.results) >= 2
    /\ FittingPieces = 1
    /\ result.text = ContextHeader \o ContextPiece(call.results[1])

\* no piece is included in the context of the last get_context_for_query
\* call: the search returned nothing or an error, or the top-ranked piece
\* alone is longer than max_context_length
NoPieceIncluded ==
    \/ call.results = << >>
    \/ IsErrorEntry(call.results[1])
    \/ Len(ContextPiece(call.results[1])) > call.max_context_length

\* C20: get_context_for_query returns the sentinel exactly when no piece is
\* included; otherwise it returns another string, which contains the
\* top-ranked piece.
C20_SentinelIffNoPiece ==
    LastCallIs("get_context_for_query") =>
        /\ (result.text = NoContextFound) <=> NoPieceIncluded
        /\ ~NoPieceIncluded =>
              \E at \in 0..(Len(result.text) - Len(ContextPiece(call.results[1]))) :
                  SubSeq(result.text, at + 1, at + Len(ContextPiece(call.results[1])))
                      = ContextPiece(call.results[1])

\* the sentinel returned on a non-empty store whose search succeeded, because
\* the top-ranked piece alone is too long
C20_SentinelForLongTopPiece ==
    /\ ContextFromResults
    /\ Len(ContextPiece(call.results[1])) > call.max_context_length
    /\ result.text = NoContextFound

(***************************************************************************)
(* Properties of the snapshot read back (specification Spec).               *)
(***************************************************************************)
\* the last call reached save_index, and both files were written
SavedByLastCall ==
    /\ call.op \in {"add_text_document", "delete_document"}
    /\ call.save = OK

\* a new SimpleRAGSystem on the data directory, with the embedding-model name
\* of the engine in use
Fresh(u) == Construct(rag.embedding_model, u, disk)

\* C21: after save_index has written the snapshot, a SimpleRAGSystem
\* constructed on the same data directory with the same embedding-model name
\* holds the documents, the metadata and the index vectors of the saved
\* engine, position by position, and every query (asked with the default
\* use_reranker) returns the same ranked
\* results from both engines.
C21_SnapshotReadBackEqualsEngine ==
    SavedByLastCall =>
        /\ \A u \in BOOLEAN :
              /\ Store(Fresh(u)) = Store(rag)
              /\ Fresh(u).use_reranker = rag.use_reranker
              /\ Fresh(u).embedding_dimension = rag.embedding_dimension
        /\ LET fresh == Fresh(FALSE)
           IN  \A query \in Queries :
                  search(fresh, query, MaxResults, None, NoFailure).result
                      = search(rag, query, MaxResults, None, NoFailure).result

\* a snapshot of two chunks written by an engine whose models are loaded
C21_SnapshotOfTwoChunksSaved ==
    /\ SavedByLastCall
    /\ Len(rag.documents) >= 2
    /\ rag.model # None
    /\ Fresh(FALSE).model = None

(***************************************************************************)
(* Properties of the text taken from a PDF (specification SpecPdf).         *)
(***************************************************************************)
\* the last call read a PDF and handed its text to add_text_document
PdfTextExtracted == call.op = "add_pdf_document" /\ call.read = OK

\* the first page of the file that satisfies the test, or 0
FirstPage(pages, Test(_)) ==
    IF \E i \in 1..Len(pages) : Test(pages[i])
    THEN CHOOSE i \in 1..Len(pages) :
            Test(pages[i]) /\ \A j \in 1..(i - 1) : ~Test(pages[j])
    ELSE 0

\* C22: the text add_pdf_document ingests has nothing of a page that comes
\* before, or is, the first page with an abstract, table-of-contents or
\* acknowledgment marker.
C22_PagesBeforeBodyStartExcluded ==
    PdfTextExtracted =>
        \A i \in 1..FirstPage(call.pages, HasBodyStartMarker) :
            ~Contains(call.text, call.pages[i])

\* C23: the text add_pdf_document ingests has nothing of the first page with
\* a references marker, nor of a page after it, whatever other markers that
\* page has.
C23_NothingFromReferencesOn ==
    PdfTextExtracted =>
        \A i \in 1..Len(call.pages) :
            (FirstPage(call.pages, HasReferenceMarker) \in 1..i)
                => ~Contains(call.text, call.pages[i])

(***************************************************************************)
(* Properties of single calls on the store (specification Spec).            *)
(***************************************************************************)
\* the last call added a text that fits one window and is long enough to be
\* used, to an engine that held no chunk and no vector, and nothing failed
\* while the chunk was processed
ShortTextAddedToEmpty ==
    /\ call.op = "add_text_document"
    /\ Len(TextOf(call.text)) <= chunk_size
    /\ Len(Strip(TextOf(call.text))) >= MinChunkLen
    /\ pre.documents = << >> /\ pre.metadata = << >> /\ pre.index.vecs = << >>
    /\ call.modelLoad # FAIL /\ call.rerankerLoad # FAIL /\ call.failed = {}

\* C24: add_text_document of a text no longer than chunk_size (and usable) on
\* an empty engine stores exactly one chunk, equal to the text, with one
\* metadata entry and one vector.
C24_ShortTextIsOneChunk ==
    ShortTextAddedToEmpty =>
        /\ rag.documents = <<TextOf(call.text)>>
        /\ Len(rag.metadata) = 1
        /\ rag.metadata[1].chunk_index = 0
        /\ rag.index.vecs = <<Embedding(rag.model, TextOf(call.text))>>
        /\ result = AddedMsg(call.doc_id, 1, 1)

\* the two-sentence text was added to an engine constructed on an empty
\* directory
C24_TwoSentencesAddedToNewEngine ==
    /\ ShortTextAddedToEmpty
    /\ call.text = "one"
    /\ Cardinality({i \in 1..Len(TextOf("one")) : TextOf("one")[i] = "."}) = 2
    /\ ncalls = 1

(***************************************************************************)
(* Properties of list_documents (specification SpecList).                   *)
(***************************************************************************)
\* the position of the first stored chunk of document d
FirstChunkOf(d) ==
    CHOOSE i \in 1..Len(rag.metadata) :
        rag.metadata[i].doc_id = d /\ \A j \in 1..(i - 1) : rag.metadata[j].doc_id # d

RECURSIVE SumOfChunks(_, _)
SumOfChunks(list, k) == IF k = 0 THEN 0 ELSE list[k].chunks + SumOfChunks(list, k - 1)

\* C25: list_documents returns one entry for each doc_id of the stored chunks,
\* in the order in which the doc_ids first appear; the chunk count of an entry
\* is the number of stored chunks of that doc_id, and the counts add up to
\* len(documents).
C25_ListGroupsChunksByDocument ==
    call.op = "list_documents" =>
        LET list == result.list
        IN  /\ {list[k].doc_id : k \in 1..Len(list)}
                  = {rag.metadata[i].doc_id : i \in 1..Len(rag.metadata)}
            /\ \A k, m \in 1..Len(list) :
                  k < m => FirstChunkOf(list[k].doc_id) < FirstChunkOf(list[m].doc_id)
            /\ \A k \in 1..Len(list) :
                  list[k].chunks = ChunkCount(rag.metadata, list[k].doc_id)
            /\ SumOfChunks(list, Len(list)) = Len(rag.documents)

\* two documents listed, the first with two chunks
C25_TwoDocumentsListed ==
    /\ call.op = "list_documents"
    /\ Len(result.list) = 2
    /\ result.list[1].chunks = 2
    /\ Len(rag.documents) = 3

(***************************************************************************)
(* Properties of _smart_chunk_text (specification SpecSmartChunk).          *)
(***************************************************************************)
\* C27: when _smart_chunk_text returns for a text longer than chunk_size,
\* every sentence of the text is part of at least one returned chunk: the
\* sentences left in the buffer at the end of the text are emitted as a last
\* chunk.
C27_EverySentenceInSomeChunk ==
    (chunker.pc = "done" /\ Len(chunker.text) > chunker.size) =>
        \A k \in 1..Len(chunker.sentences) :
            \E c \in 1..Len(chunker.chunks) :
                Contains(chunker.chunks[c], chunker.sentences[k])

(***************************************************************************)
(* Properties of the result cache (specification SpecImproved).             *)
(***************************************************************************)
\* C26: a result that ImprovedRAGSystem.search takes from its cache is the
\* result an uncached search computes on the store as it is now; in
\* particular it reflects the chunks added since the result was cached.
C26_CachedResultIsCurrent ==
    (call.op = "search" /\ call.cached) =>
        result.list = ImprovedResults(improved, call.query, call.n_results)

(***************************************************************************)
(* Properties of the window end of _chunk_text (specification SpecChunk).   *)
(***************************************************************************)
\* the window of the last iteration ended inside the text, held no sentence
\* terminator where lines 456-459 look for one, and the text has no space at
\* or after the window end
WindowWithoutBoundary ==
    LET text == chunker.text
        end  == chunker.prev + chunker.size
        lo   == Max(end - SentenceLookback, chunker.prev)
    IN  /\ chunker.iter > 0
        /\ chunker.prev >= 0
        /\ end < Len(text)
        /\ \A i \in (lo + 1)..end : PyCh(text, i) \notin SentenceEnd
        /\ \A i \in end..(Len(text) - 1) : PyCh(text, i) # " "

\* C28: when the window holds no sentence terminator and no space follows
\* it, _chunk_text cuts the chunk at start + chunk_size, so the chunk is not
\* longer than chunk_size.
C28_HardCutAtChunkSize ==
    WindowWithoutBoundary =>
        /\ chunker.chunks # << >>
        /\ Len(chunker.chunks[Len(chunker.chunks)]) <= chunker.size

(***************************************************************************)
(* Properties of the length of the context (specification SpecContext).     *)
(***************************************************************************)
\* C29: the string get_context_for_query returns, when it is not the
\* sentinel, has at most max_context_length characters, the header and the
\* separators counted.
C29_ContextWithinMaxLength ==
    (call.op = "get_context_for_query" /\ result.text # NoContextFound) =>
        Len(result.text) <= call.max_context_length

(***************************************************************************)
(* Properties of the chunk identifiers (specification Spec).                *)
(***************************************************************************)
\* C30: the chunk_id values of the stored chunks are pairwise distinct, also
\* after two add_text_document calls with the same doc_id.
C30_ChunkIdsDistinct ==
    \A i, j \in 1..Len(rag.metadata) :
        i # j => rag.metadata[i].chunk_id # rag.metadata[j].chunk_id


=============================================================================
